---- MODULE Spec2Model ----
(***************************************************************************)
(* A model of the Lisp runtime of try-tauri: the environment frames and    *)
(* object store (lisp/env.rs), the mark-and-sweep collector (lisp/gc.rs),  *)
(* the tokenizer and parser (lisp/parser.rs) and the evaluator             *)
(* (lisp/eval.rs).                                                         *)
(*                                                                         *)
(* Expressions are records tagged by t, one tag per variant of parser.rs   *)
(* Expr.  The location and trailing_newline fields of Expr are formatting  *)
(* metadata that no operation modelled here reads, and are left out.       *)
(* Frames (Arc<Mutex<Env>>) live in the sequence frames; a frame's         *)
(* identity is its index, and a parent or captured env is such an index.   *)
(***************************************************************************)
EXTENDS Integers, Sequences, FiniteSets, TLC

VARIABLES frames, COUNTER, lockedBy, calls, hist, swept, runs, last

vars == <<frames, COUNTER, lockedBy, calls, hist, swept, runs, last>>

(***************************************************************************)
(* Bounds of the model.                                                    *)
(***************************************************************************)
\* insert_model calls per behaviour: the greatest id handed out
MaxId == 2

Threads == {1, 2}

(***************************************************************************)
(* parser.rs Expr: constructors                                            *)
(***************************************************************************)
Symbol(n) == [t |-> "Symbol", name |-> n]
Integer(v) == [t |-> "Integer", value |-> v]
String(s) == [t |-> "String", str |-> s]
List(es) == [t |-> "List", elements |-> es]
Model(i) == [t |-> "Model", id |-> i]
Quote(e) == [t |-> "Quote", expr |-> e]
Quasiquote(e) == [t |-> "Quasiquote", expr |-> e]
Unquote(e) == [t |-> "Unquote", expr |-> e]
Builtin(n) == [t |-> "Builtin", fun |-> n]
SpecialForm(n) == [t |-> "SpecialForm", fun |-> n]
Clausure(a, b, e) == [t |-> "Clausure", args |-> a, body |-> b, env |-> e]
Macro(a, b, e) == [t |-> "Macro", args |-> a, body |-> b, env |-> e]

(***************************************************************************)
(* env.rs: frames, bindings, the object store, the id counter              *)
(***************************************************************************)
NoParent == 0
EmptyMap == [x \in {} |-> x]

\* Env::new
new == [parent |-> NoParent, vars |-> EmptyMap, depth |-> 0,
        models |-> EmptyMap, preview_list |-> <<>>]

\* Env::make_child: the new frame; the caller appends it to the heap
make_child(fs, parent) == [parent |-> parent, vars |-> EmptyMap, depth |-> fs[parent].depth + 1,
                           models |-> EmptyMap, preview_list |-> <<>>]

\* HashMap::insert: overwrite or add
MapInsert(m, k, v) == [x \in DOMAIN m \cup {k} |-> IF x = k THEN v ELSE m[x]]

\* a mutant of insert: the binding is dropped
insert_dropped(fs, e, name, value) == fs

\* Env::insert
insert(fs, e, name, value) == [fs EXCEPT ![e].vars = MapInsert(@, name, value)]

NotFound == [t |-> "None"]

RECURSIVE get(_, _, _)

\* a mutant of get: a name stands for itself
get_itself(fs, e, name) == [t |-> "Symbol", name |-> name]

\* Env::get: local bindings, then the parent chain
get(fs, e, name) ==
    IF name \in DOMAIN fs[e].vars THEN fs[e].vars[name]
    ELSE IF fs[e].parent # NoParent THEN get(fs, fs[e].parent, name)
    ELSE NotFound

\* a mutant of gen_id: the counter is read but not advanced
gen_id_stuck(c) == [id |-> c, next |-> c]

\* gen_id: COUNTER.fetch_add(1): the old value is the id
gen_id(c) == [id |-> c, next |-> c + 1]

\* the store half of Env::insert_model: self.models.insert(id, model)
store_model(fs, e, id, model) == [fs EXCEPT ![e].models = MapInsert(@, id, model)]

\* Env::get_model: local store, then the parent chain
RECURSIVE get_model(_, _, _)
get_model(fs, e, id) ==
    IF id \in DOMAIN fs[e].models THEN fs[e].models[id]
    ELSE IF fs[e].parent # NoParent THEN get_model(fs, fs[e].parent, id)
    ELSE "None"

\* Env::insert_preview_list
insert_preview_list(fs, e, id) == [fs EXCEPT ![e].preview_list = Append(@, id)]

\* Env::vars_mut().clear()
clear_vars(fs, e) == [fs EXCEPT ![e].vars = EmptyMap]

\* a mutant of retain_polys: the bindings that named a removed entry go with it
retain_polys_unbinding(fs, e, keep) ==
    [fs EXCEPT ![e].models = [i \in (DOMAIN @) \cap keep |-> @[i]],
               ![e].vars = IF (DOMAIN fs[e].models) \subseteq keep THEN @ ELSE EmptyMap]

\* Env::retain_polys with the predicate of sweep_unreachable
retain_polys(fs, e, keep) ==
    [fs EXCEPT ![e].models = [i \in (DOMAIN @) \cap keep |-> @[i]]]

(***************************************************************************)
(* gc.rs                                                                   *)
(***************************************************************************)
RECURSIVE mark_expr(_, _)
mark_expr(x, reachable) ==
    CASE x.t = "Model" -> reachable \cup {x.id}
      [] x.t = "List" ->
            reachable \cup UNION {mark_expr(x.elements[i], {}) : i \in DOMAIN x.elements}
      [] x.t = "Quote" -> mark_expr(x.expr, reachable)
      [] x.t = "Clausure" -> mark_expr(x.body, reachable)
      [] OTHER -> reachable

RECURSIVE mark_reachable(_, _, _)
mark_reachable(fs, e, reachable) ==
    LET fromVars == UNION {mark_expr(fs[e].vars[n], {}) : n \in DOMAIN fs[e].vars}
        fromPreview == {fs[e].preview_list[i] : i \in DOMAIN fs[e].preview_list}
        marked == reachable \cup fromVars \cup fromPreview
    IN  IF fs[e].parent # NoParent THEN mark_reachable(fs, fs[e].parent, marked)
        ELSE marked

\* a mutant of sweep_unreachable: a run removes one unreachable entry, the least
sweep_one(fs, e, reachable) ==
    LET dead == (DOMAIN fs[e].models) \ reachable
    IN  IF dead = {} THEN fs
        ELSE retain_polys(fs, e, (DOMAIN fs[e].models) \
                                     {CHOOSE a \in dead : \A b \in dead : a <= b})

sweep_unreachable(fs, e, reachable) == retain_polys(fs, e, reachable)

collect_garbage(fs, e) == sweep_unreachable(fs, e, mark_reachable(fs, e, {}))

(***************************************************************************)
(* The host side of the Env interface, as the tests of gc.rs drive it: a   *)
(* root frame and a child of it, insert, vars_mut().clear(),               *)
(* insert_preview_list, insert_model and collect_garbage on either frame.  *)
(***************************************************************************)
VarNames == {"a"}

\* values a host binds: a ModelRef bare, and nested in each Expr variant that
\* carries sub-expressions
GCValues(id, f) ==
    { Model(id),
      List(<<Symbol("list"), Model(id)>>),
      Quote(Model(id)),
      Quasiquote(Unquote(Model(id))),
      Clausure(<<"x">>, List(<<Symbol("list"), Model(id)>>), f),
      Clausure(<<"x">>, Quasiquote(List(<<Symbol("list"), Unquote(Model(id))>>)), f),
      Macro(<<"x">>, List(<<Symbol("list"), Model(id)>>), f) }

Idle == [pc |-> "idle", frame |-> 0, id |-> 0, floor |-> 0]
Other == [op |-> "other", frame |-> 0]

\* the frames of the chain that starts at e
RECURSIVE Chain(_, _)
Chain(fs, e) == IF fs[e].parent = NoParent THEN {e} ELSE {e} \cup Chain(fs, fs[e].parent)

Unlocked(S) == \A f \in S : lockedBy[f] = 0

\* ids that gen_id has handed out
Issued == 1..(COUNTER - 1)

\* the greatest id an insert_model call has returned so far
MaxReturned == IF hist = <<>> THEN 0
               ELSE CHOOSE m \in {hist[i].id : i \in DOMAIN hist} :
                        \A i \in DOMAIN hist : hist[i].id <= m

\* Env::new() and Env::make_child(&root)
RootAndChild == <<new, make_child(<<new>>, 1)>>

InitGC ==
    /\ frames = RootAndChild
    /\ COUNTER = 1
    /\ lockedBy = [f \in DOMAIN RootAndChild |-> 0]
    /\ calls = [t \in Threads |-> Idle]
    /\ hist = <<>>
    /\ swept = {}
    /\ runs = 0
    /\ last = Other

Insert(f, n, v) ==
    /\ Unlocked({f})
    /\ frames' = insert(frames, f, n, v)
    /\ last' = Other
    /\ UNCHANGED <<COUNTER, lockedBy, calls, hist, swept, runs>>

ClearVars(f) ==
    /\ Unlocked({f})
    /\ frames[f].vars # EmptyMap
    /\ frames' = clear_vars(frames, f)
    /\ last' = Other
    /\ UNCHANGED <<COUNTER, lockedBy, calls, hist, swept, runs>>

\* one preview entry in the chain: membership is all the collector reads
InsertPreviewList(f, id) ==
    /\ Unlocked({f})
    /\ \A g \in DOMAIN frames : frames[g].preview_list = <<>>
    /\ frames' = insert_preview_list(frames, f, id)
    /\ last' = Other
    /\ UNCHANGED <<COUNTER, lockedBy, calls, hist, swept, runs>>

\* Env::insert_model in one step: let id = gen_id(); self.models.insert(id, ..); id
InsertModel(f) ==
    /\ COUNTER <= MaxId
    /\ Unlocked({f})
    /\ LET g == gen_id(COUNTER)
       IN  /\ COUNTER' = g.next
           /\ frames' = store_model(frames, f, g.id, "Mesh")
    /\ last' = Other
    /\ UNCHANGED <<lockedBy, calls, hist, swept, runs>>

\* env.lock() and the first half of insert_model: let id = gen_id()
InsertModelBegin(t, f) ==
    /\ calls[t].pc = "idle"
    /\ COUNTER <= MaxId
    /\ Unlocked({f})
    /\ LET g == gen_id(COUNTER)
       IN  /\ COUNTER' = g.next
           /\ calls' = [calls EXCEPT ![t] = [pc |-> "store", frame |-> f, id |-> g.id,
                                             floor |-> MaxReturned]]
    /\ lockedBy' = [lockedBy EXCEPT ![f] = t]
    /\ last' = Other
    /\ UNCHANGED <<frames, hist, swept, runs>>

\* the second half: self.models.insert(id, ..); the id is returned, the lock dropped
InsertModelEnd(t) ==
    /\ calls[t].pc = "store"
    /\ frames' = store_model(frames, calls[t].frame, calls[t].id, "Mesh")
    /\ hist' = Append(hist, [id |-> calls[t].id, floor |-> calls[t].floor,
                             sweptBefore |-> swept,
                             live |-> \E f \in DOMAIN frames : calls[t].id \in DOMAIN frames[f].models])
    /\ lockedBy' = [lockedBy EXCEPT ![calls[t].frame] = 0]
    /\ calls' = [calls EXCEPT ![t] = Idle]
    /\ last' = Other
    /\ UNCHANGED <<COUNTER, swept, runs>>

\* gc::collect_garbage(&mut env) on frame f; mark_reachable locks each ancestor
CollectGarbage(f) ==
    /\ Unlocked(Chain(frames, f))
    /\ frames' = collect_garbage(frames, f)
    /\ LET removed == UNION {(DOMAIN frames[g].models) \ (DOMAIN frames'[g].models) : g \in DOMAIN frames}
       IN  /\ last' = [op |-> "collect_garbage", frame |-> f]
           /\ swept' = swept \cup removed
    /\ UNCHANGED <<COUNTER, lockedBy, calls, hist, runs>>

(***************************************************************************)
(* SpecGC: one host thread; every operation is one step.                   *)
(***************************************************************************)
NextGC ==
    \/ \E f \in DOMAIN frames, n \in VarNames, id \in Issued :
          \E v \in GCValues(id, f) : Insert(f, n, v)
    \/ \E f \in DOMAIN frames : ClearVars(f)
    \/ \E f \in DOMAIN frames, id \in Issued : InsertPreviewList(f, id)
    \/ \E f \in DOMAIN frames : InsertModel(f)
    \/ \E f \in DOMAIN frames : CollectGarbage(f)

SpecGC == InitGC /\ [][NextGC]_vars

(***************************************************************************)
(* SpecIds: two host threads call insert_model, each call in two steps     *)
(* (gen_id, then the store into the locked frame), so that calls on        *)
(* different frames interleave, mixed with previews and collections.       *)
(***************************************************************************)
NextIds ==
    \/ \E t \in Threads, f \in DOMAIN frames : InsertModelBegin(t, f)
    \/ \E t \in Threads : InsertModelEnd(t)
    \/ \E f \in DOMAIN frames, id \in Issued : InsertPreviewList(f, id)
    \/ \E f \in DOMAIN frames : CollectGarbage(f)

SpecIds == InitGC /\ [][NextIds]_vars

(***************************************************************************)
(* SpecRace: host threads evaluate (define name (prim ..)) on a frame,     *)
(* where prim is a primitive that ends in return_model, while the          *)
(* collector runs.  eval_define_impl takes the frame lock twice: inside    *)
(* return_model for insert_model, and again for the insertion of the       *)
(* binding; each is one step, and the lock is free in between.             *)
(***************************************************************************)
\* let value = eval(value, env.clone())?: return_model stores the object
DefineValue(t, f) ==
    /\ calls[t].pc = "idle"
    /\ COUNTER <= MaxId
    /\ Unlocked({f})
    /\ LET g == gen_id(COUNTER)
       IN  /\ COUNTER' = g.next
           /\ frames' = store_model(frames, f, g.id, "Point3")
           /\ calls' = [calls EXCEPT ![t] = [pc |-> "bind", frame |-> f, id |-> g.id,
                                             floor |-> 0]]
    /\ last' = Other
    /\ UNCHANGED <<lockedBy, hist, swept, runs>>

\* env.lock().unwrap().insert(name.clone(), value.clone()); Ok(value)
DefineInsert(t, name) ==
    /\ calls[t].pc = "bind"
    /\ Unlocked({calls[t].frame})
    /\ frames' = insert(frames, calls[t].frame, name, Model(calls[t].id))
    /\ calls' = [calls EXCEPT ![t] = Idle]
    /\ last' = [op |-> "define", frame |-> calls[t].frame]
    /\ UNCHANGED <<COUNTER, lockedBy, hist, swept, runs>>

NextRace ==
    \/ \E t \in Threads, f \in DOMAIN frames : DefineValue(t, f)
    \/ \E t \in Threads, name \in VarNames : DefineInsert(t, name)
    \/ \E f \in DOMAIN frames : CollectGarbage(f)

SpecRace == InitGC /\ [][NextRace]_vars

(***************************************************************************)
(* SpecLocks: the frame locks.  Host threads run the operations that lock  *)
(* a frame, one lock or unlock per step.  A thread's call holds the frames *)
(* in held, in the order it locked them, and at pc "lock" waits for the    *)
(* frame want; guards are dropped innermost first, as the recursion of     *)
(* get, get_model and mark_reachable returns, and the operation takes      *)
(* effect when the guard of its own frame is dropped.                      *)
(***************************************************************************)
\* operations begun per behaviour under SpecLocks
MaxCalls == 2

NoCall == [pc |-> "idle", op |-> "none", frame |-> 0, want |-> 0, held |-> <<>>,
           name |-> "", id |-> 0, found |-> "None", reachable |-> {}]

\* a root frame that holds a face and a solid made of it; a child of it, the frame
\* of a let that binds a to a mesh it loaded; and a child of the child
LetFrames ==
    <<[new EXCEPT !.models = <<"Face", "Solid">>],
      [make_child(<<new>>, 1) EXCEPT !.vars = [n \in VarNames |-> Model(3)],
                                      !.models = [i \in {3} |-> "Mesh"]],
      [new EXCEPT !.parent = 2, !.depth = 2]>>

\* the ids of a solid and of a mesh
LockIds == {2, 3}

InitLocks ==
    /\ frames = LetFrames
    /\ COUNTER = 4
    /\ lockedBy = [f \in DOMAIN LetFrames |-> 0]
    /\ calls = [t \in Threads |-> NoCall]
    /\ hist = <<>>
    /\ swept = {}
    /\ runs = 0
    /\ last = Other

\* a mutant of lock_parent: the frame itself is locked again
lock_itself(fs, e) == e

\* parent.lock() of get, get_model and mark_reachable: the frame locked next
lock_parent(fs, e) == fs[e].parent

\* whether the call locks the parent of the frame g it has just locked
walks_on(c, fs, g) ==
    /\ fs[g].parent # NoParent
    /\ CASE c.op = "get" -> c.name \notin DOMAIN fs[g].vars
         [] c.op \in {"get_model", "preview"} -> c.id \notin DOMAIN fs[g].models
         [] c.op = "collect_garbage" -> TRUE
         [] OTHER -> FALSE

\* the call enters an operation on frame f: env.lock() comes next
Begin(t, op, f, name, id) ==
    /\ calls[t].pc = "idle"
    /\ runs < MaxCalls
    /\ runs' = runs + 1
    /\ calls' = [calls EXCEPT ![t] = [NoCall EXCEPT !.pc = "lock", !.op = op, !.frame = f,
                                                    !.want = f, !.name = name, !.id = id]]
    /\ last' = Other
    /\ UNCHANGED <<frames, COUNTER, lockedBy, hist, swept>>

\* lock().unwrap() on the frame the call waits for; under the guard the call
\* reads the frame, and either goes on to lock the parent or starts to return
Lock(t) ==
    LET c == calls[t]
        g == c.want
    IN  /\ c.pc = "lock"
        /\ lockedBy[g] = 0
        /\ lockedBy' = [lockedBy EXCEPT ![g] = t]
        /\ calls' = [calls EXCEPT ![t] =
              [c EXCEPT !.held = Append(@, g),
                        !.found = IF c.op \in {"get_model", "preview"}
                                     /\ c.id \in DOMAIN frames[g].models
                                  THEN frames[g].models[c.id] ELSE @,
                        !.reachable = IF c.op = "collect_garbage"
                                      THEN mark_reachable([frames EXCEPT ![g].parent = NoParent],
                                                          g, @)
                                      ELSE @,
                        !.want = IF walks_on(c, frames, g) THEN lock_parent(frames, g) ELSE 0,
                        !.pc = IF walks_on(c, frames, g) THEN "lock" ELSE "unwind"]]
        /\ last' = Other
        /\ UNCHANGED <<frames, COUNTER, hist, swept, runs>>

\* the guard of an ancestor is dropped: the recursion returns one level
Unlock(t) ==
    LET c == calls[t]
    IN  /\ c.pc = "unwind"
        /\ Len(c.held) > 1
        /\ lockedBy' = [lockedBy EXCEPT ![c.held[Len(c.held)]] = 0]
        /\ calls' = [calls EXCEPT ![t].held = SubSeq(c.held, 1, Len(c.held) - 1)]
        /\ last' = Other
        /\ UNCHANGED <<frames, COUNTER, hist, swept, runs>>

\* what the operation does under the guard of its own frame, as [frames, COUNTER]
effect(c, fs, counter) ==
    CASE c.op = "insert" -> [frames |-> insert(fs, c.frame, c.name, Model(c.id)), COUNTER |-> counter]
      [] c.op = "collect_garbage" ->
            [frames |-> sweep_unreachable(fs, c.frame, c.reachable), COUNTER |-> counter]
      [] c.op = "return_model" ->
            [frames |-> store_model(fs, c.frame, gen_id(counter).id, "Mesh"),
             COUNTER |-> gen_id(counter).next]
      [] c.op = "preview" /\ c.found = "Mesh" ->
            [frames |-> insert_preview_list(fs, c.frame, c.id), COUNTER |-> counter]
      [] c.op = "preview" /\ c.found = "Solid" ->
            [frames |-> insert_preview_list(store_model(fs, c.frame, gen_id(counter).id, "Mesh"),
                                            c.frame, gen_id(counter).id),
             COUNTER |-> gen_id(counter).next]
      [] c.op = "make_child" ->
            [frames |-> Append(fs, make_child(fs, c.frame)), COUNTER |-> counter]
      [] OTHER -> [frames |-> fs, COUNTER |-> counter]

\* the operation takes effect and the guard of its own frame is dropped; preview
\* of a solid goes on to return_model, which locks the frame anew
Finish(t) ==
    LET c == calls[t]
    IN  /\ c.pc = "unwind"
        /\ Len(c.held) = 1
        /\ \E r \in {effect(c, frames, COUNTER)} :
              /\ frames' = r.frames
              /\ COUNTER' = r.COUNTER
              /\ lockedBy' = [g \in DOMAIN r.frames |->
                                IF g \in DOMAIN lockedBy /\ g # c.frame THEN lockedBy[g] ELSE 0]
        /\ calls' = [calls EXCEPT ![t] =
              IF c.op = "preview" /\ c.found = "Solid"
              THEN [NoCall EXCEPT !.pc = "lock", !.op = "return_model", !.frame = c.frame,
                                  !.want = c.frame]
              ELSE NoCall]
        /\ last' = [op |-> c.op, frame |-> c.frame]
        /\ UNCHANGED <<hist, swept, runs>>

NextLocks ==
    \/ \E t \in Threads, f \in DOMAIN frames :
          \/ \E name \in VarNames : Begin(t, "get", f, name, 0)
          \/ \E id \in LockIds : Begin(t, "get_model", f, "", id)
          \/ \E id \in LockIds : Begin(t, "preview", f, "", id)
          \/ \E name \in VarNames, id \in LockIds : Begin(t, "insert", f, name, id)
          \/ \E op \in {"make_child", "return_model", "collect_garbage"} : Begin(t, op, f, "", 0)
    \/ \E t \in Threads : Lock(t)
    \/ \E t \in Threads : Unlock(t)
    \/ \E t \in Threads : Finish(t)

SpecLocks == InitLocks /\ [][NextLocks]_vars

(***************************************************************************)
(* parser.rs: tokenize and parse_file.  A text is a sequence of characters *)
(* (one-character strings); a token is its kind, the span of its fragment  *)
(* in the text (from, up to but not including to) and the position next    *)
(* after it.                                                               *)
(***************************************************************************)
\* the greatest length of an input text
MaxTextLen == 3

DQ == "\""
NL == "\n"
\* the backquote of quasiquote, which a string of this language cannot hold
BQ == "backquote"
Alphabet == {"(", ")", "1", "a", "-", ".", "'", DQ, " ", NL, ";", "@"}
Digits == {"0", "1", "2", "3", "4", "5", "6", "7", "8", "9"}
Letters == {"a", "b", "c", "x", "y", "z"}
\* symbol: c.is_alphanumeric() || "_+-*/<>#?!.".contains(c)
SymbolChars == Digits \cup Letters \cup {"_", "+", "-", "*", "/", "<", ">", "#", "?", "!", "."}
\* space0: spaces and tabs
SpaceChars == {" ", "\t"}

Texts == UNION {[1..n -> Alphabet] : n \in 0..MaxTextLen}

\* take_while: the first position at or after pos whose character is outside S
RECURSIVE TakeWhile(_, _, _)
TakeWhile(text, pos, S) ==
    IF pos <= Len(text) /\ text[pos] \in S THEN TakeWhile(text, pos + 1, S) ELSE pos

At(text, pos, c) == pos <= Len(text) /\ text[pos] = c

NoToken == [ok |-> FALSE, kind |-> "", from |-> 0, to |-> 0, next |-> 0]
Token(k, from, to, next) == [ok |-> TRUE, kind |-> k, from |-> from, to |-> to, next |-> next]

\* delimited(char('"'), take_while1(|c| c != '"'), char('"'))
string(text, pos) ==
    LET end == TakeWhile(text, pos + 1, Alphabet \ {DQ})
    IN  IF At(text, pos, DQ) /\ end > pos + 1 /\ At(text, end, DQ)
        THEN Token("String", pos + 1, end, end + 1)
        ELSE NoToken

\* recognize(pair(opt(char('-')), take_while1(is_digit)))
integer(text, pos) ==
    LET start == IF At(text, pos, "-") THEN pos + 1 ELSE pos
        end == TakeWhile(text, start, Digits)
    IN  IF end > start THEN Token("Integer", pos, end, end) ELSE NoToken

\* recognize(pair(opt('-'), pair(digits1, preceded(char('.'), digits1))))
double(text, pos) ==
    LET start == IF At(text, pos, "-") THEN pos + 1 ELSE pos
        dot == TakeWhile(text, start, Digits)
        end == TakeWhile(text, dot + 1, Digits)
    IN  IF dot > start /\ At(text, dot, ".") /\ end > dot + 1
        THEN Token("Double", pos, end, end)
        ELSE NoToken

symbol(text, pos) ==
    LET end == TakeWhile(text, pos, SymbolChars)
    IN  IF end > pos THEN Token("Symbol", pos, end, end) ELSE NoToken

\* quote, quasiquote, unquote, lparen, rparen, newline: one character each
char_token(text, pos) ==
    CASE At(text, pos, "'") -> Token("Quote", pos, pos + 1, pos + 1)
      [] At(text, pos, BQ) -> Token("Quasiquote", pos, pos + 1, pos + 1)
      [] At(text, pos, "~") -> Token("Unquote", pos, pos + 1, pos + 1)
      [] At(text, pos, "(") -> Token("LParen", pos, pos + 1, pos + 1)
      [] At(text, pos, ")") -> Token("RParen", pos, pos + 1, pos + 1)
      [] At(text, pos, NL) -> Token("Newline", pos, pos + 1, pos + 1)
      [] OTHER -> NoToken

\* char(';') then take_while(|c| c != '\n')
comment(text, pos) ==
    LET end == TakeWhile(text, pos + 1, Alphabet \ {NL})
    IN  IF At(text, pos, ";") THEN Token("Comment", pos + 1, end, end) ELSE NoToken

\* alt((string, double, integer, symbol, quote, .., newline, comment)): the first that matches
any_token(text, pos) ==
    CASE string(text, pos).ok -> string(text, pos)
      [] double(text, pos).ok -> double(text, pos)
      [] integer(text, pos).ok -> integer(text, pos)
      [] symbol(text, pos).ok -> symbol(text, pos)
      [] char_token(text, pos).ok -> char_token(text, pos)
      [] OTHER -> comment(text, pos)

\* many0(delimited(space0, alt(..), space0)): stops, without an error, at the first
\* position where no token matches, and hands back the input left there
RECURSIVE many0_tokens(_, _, _)
many0_tokens(text, pos, acc) ==
    LET tok == any_token(text, TakeWhile(text, pos, SpaceChars))
    IN  IF tok.ok
        THEN many0_tokens(text, TakeWhile(text, tok.next, SpaceChars), Append(acc, tok))
        ELSE [rest |-> pos, tokens |-> acc]

\* tokenize: all tokens, then the comments filtered out; always Ok
tokenize(text) ==
    LET all == many0_tokens(text, 1, <<>>)
    IN  [ok |-> TRUE, rest |-> all.rest,
         tokens |-> SelectSeq(all.tokens, LAMBDA tk : tk.kind # "Comment")]

\* the fragment of a token, as the characters it is made of
Fragment(text, tok) == SubSeq(text, tok.from, tok.to - 1)

\* fragment.to_string()
RECURSIVE to_string(_)
to_string(frag) == IF frag = <<>> THEN "" ELSE Head(frag) \o to_string(Tail(frag))

DigitValue(c) == CASE c = "0" -> 0 [] c = "1" -> 1 [] c = "2" -> 2 [] c = "3" -> 3 [] c = "4" -> 4
                   [] c = "5" -> 5 [] c = "6" -> 6 [] c = "7" -> 7 [] c = "8" -> 8 [] c = "9" -> 9

\* str::parse::<i64> of a fragment that integer recognized
RECURSIVE ParseDigits(_, _)
ParseDigits(frag, acc) ==
    IF frag = <<>> THEN acc ELSE ParseDigits(Tail(frag), 10 * acc + DigitValue(Head(frag)))

ParseInt(frag) == IF Head(frag) = "-" THEN 0 - ParseDigits(Tail(frag), 0) ELSE ParseDigits(frag, 0)

Double(frag) == [t |-> "Double", digits |-> frag]

ParseErr == [ok |-> FALSE, next |-> 0, e |-> NotFound]
Parsed(e, next) == [ok |-> TRUE, next |-> next, e |-> e]

\* many0(parse_newline)
RECURSIVE skip_newlines(_, _)
skip_newlines(toks, i) ==
    IF i <= Len(toks) /\ toks[i].kind = "Newline" THEN skip_newlines(toks, i + 1) ELSE i

RECURSIVE expr(_, _, _)
RECURSIVE parse_list_elements(_, _, _, _)

\* the loop of parse_list: while let Ok(..) = expr(rest)
parse_list_elements(text, toks, i, acc) ==
    LET r == expr(text, toks, i)
    IN  IF r.ok THEN parse_list_elements(text, toks, r.next, Append(acc, r.e))
        ELSE [next |-> i, elements |-> acc]

parse_list(text, toks, i) ==
    LET body == parse_list_elements(text, toks, i + 1, <<>>)
    IN  IF body.next <= Len(toks) /\ toks[body.next].kind = "RParen"
        THEN Parsed(List(body.elements), body.next + 1)
        ELSE ParseErr

\* parse_quote, parse_quasiquote, parse_unquote
parse_quoted(text, toks, i) ==
    LET r == expr(text, toks, i + 1)
    IN  IF ~r.ok THEN ParseErr
        ELSE CASE toks[i].kind = "Quote" -> Parsed(Quote(r.e), r.next)
               [] toks[i].kind = "Quasiquote" -> Parsed(Quasiquote(r.e), r.next)
               [] toks[i].kind = "Unquote" -> Parsed(Unquote(r.e), r.next)

\* expr: alt((parse_string, .., parse_list)) then many0(parse_newline)
expr(text, toks, i) ==
    IF i > Len(toks) THEN ParseErr
    ELSE LET tok == toks[i]
             r == CASE tok.kind = "String" -> Parsed(String(to_string(Fragment(text, tok))), i + 1)
                    [] tok.kind = "Double" -> Parsed(Double(Fragment(text, tok)), i + 1)
                    [] tok.kind = "Integer" -> Parsed(Integer(ParseInt(Fragment(text, tok))), i + 1)
                    [] tok.kind = "Symbol" -> Parsed(Symbol(to_string(Fragment(text, tok))), i + 1)
                    [] tok.kind \in {"Quote", "Quasiquote", "Unquote"} -> parse_quoted(text, toks, i)
                    [] tok.kind = "LParen" -> parse_list(text, toks, i)
                    [] OTHER -> ParseErr
         IN  IF r.ok THEN Parsed(r.e, skip_newlines(toks, r.next)) ELSE ParseErr

\* the loop of parse_file: while rest.len() > 0
RECURSIVE parse_exprs(_, _, _, _)
parse_exprs(text, toks, i, acc) ==
    IF i > Len(toks) THEN [ok |-> TRUE, exprs |-> acc]
    ELSE LET r == expr(text, toks, i)
         IN  IF r.ok THEN parse_exprs(text, toks, r.next, Append(acc, r.e))
             ELSE [ok |-> FALSE, exprs |-> <<>>]

\* parse_file: on Ok of tokenize the input it left is dropped (Ok((_, tokens)))
parse_file(text) ==
    LET tk == tokenize(text)
    IN  IF tk.ok THEN parse_exprs(text, tk.tokens, 1, <<>>) ELSE [ok |-> FALSE, exprs |-> <<>>]

(***************************************************************************)
(* SpecParse: the host parses a text.  parse_file is a function of its     *)
(* text alone, so one call per behaviour shows all that it can do.         *)
(***************************************************************************)
InitParse ==
    /\ frames = <<new>>
    /\ COUNTER = 1
    /\ lockedBy = <<0>>
    /\ calls = [t \in Threads |-> Idle]
    /\ hist = <<>>
    /\ swept = {}
    /\ runs = 0
    /\ last = Other

ParseFile(text) ==
    /\ last.op # "parse_file"
    /\ last' = [op |-> "parse_file", text |-> text, res |-> parse_file(text)]
    /\ UNCHANGED <<frames, COUNTER, lockedBy, calls, hist, swept, runs>>

NextParse == \E text \in Texts : ParseFile(text)

SpecParse == InitParse /\ [][NextParse]_vars

(***************************************************************************)
(* eval.rs: the evaluator.  An evaluation threads a heap s (the frames,    *)
(* the id counter, the build's overflow checks and a trace) and returns a  *)
(* result [k, v, msg, st]: k is "ok" with the value v, "err" with the      *)
(* message msg, "panic" where the code panics, or "deep" where the nesting *)
(* of eval calls passes MaxDepth, the call stack this model follows.  The  *)
(* trace records each eval call ("eval", with its expression, frame and    *)
(* nesting depth d), its return ("ret"), and each closure application.  A  *)
(* frame that no value refers to any more stands for one that the program  *)
(* dropped.  Of the primitives of cadprims.rs, p, preview, load_stl,       *)
(* circle and linear_extrude are modelled.                                 *)
(***************************************************************************)
\* the greatest nesting depth of eval calls that is followed
MaxDepth == 12

\* the number of bits that stands for the 64 bits of i64
IntBits == 4

IntMax == 2 ^ (IntBits - 1) - 1
IntMin == 0 - 2 ^ (IntBits - 1)

\* the files that load_stl can open and read as STL
StlFiles == {"m.stl"}

\* the v of a result that has no value
NoValue == [t |-> "None"]

Ok(v, s) == [k |-> "ok", v |-> v, msg |-> "", st |-> s]
Err(msg, s) == [k |-> "err", v |-> NoValue, msg |-> msg, st |-> s]
Panic(msg, s) == [k |-> "panic", v |-> NoValue, msg |-> msg, st |-> s]
Deep(s) == [k |-> "deep", v |-> NoValue, msg |-> "", st |-> s]

Log(s, event) == [s EXCEPT !.trace = Append(@, event)]

\* Env::make_child on the heap s: the new frame is the last of s.frames
with_child(s, parent) == [s EXCEPT !.frames = Append(@, make_child(@, parent))]

\* a mutant of is_symbol: no head is recognized
is_symbol_never(x, name) == FALSE

is_symbol(x, name) == x.t = "Symbol" /\ x.name = name

all_symbols(args) == \A i \in DOMAIN args : args[i].t = "Symbol"

\* args.iter().map(|arg| arg.as_symbol().expect(..).to_string()).collect()
argnames(args) == [i \in DOMAIN args |-> args[i].name]

Exact(n) == [kind |-> "Exact", min |-> n, max |-> n]
Range(min, max) == [kind |-> "Range", min |-> min, max |-> max]
AtLeast(min) == [kind |-> "AtLeast", min |-> min, max |-> min]

contains(range, n) ==
    CASE range.kind = "Exact" -> n = range.min
      [] range.kind = "Range" -> n >= range.min /\ n <= range.max
      [] range.kind = "AtLeast" -> n >= range.min

\* assert_arg_count: "" for Ok(()), else the message of the error
assert_arg_count(args, range) ==
    IF contains(range, Len(args)) THEN ""
    ELSE CASE range.kind = "Exact" ->
                "expected " \o ToString(range.min) \o " arguments, got " \o ToString(Len(args))
           [] range.kind = "Range" ->
                "expected " \o ToString(range.min) \o " to " \o ToString(range.max)
                    \o " arguments, got " \o ToString(Len(args))
           [] range.kind = "AtLeast" ->
                "expected at least " \o ToString(range.min) \o " arguments, got "
                    \o ToString(Len(args))

\* i64 arithmetic: a result outside the width panics in a build with overflow
\* checks and wraps in a build without them
overflows(r) == r < IntMin \/ r > IntMax
wrapping(r) == ((r - IntMin) % (2 ^ IntBits)) + IntMin

\* `value as i64` of a double: the digits before the point
as_i64(x) ==
    LET dot == CHOOSE i \in DOMAIN x.digits : x.digits[i] = "."
    IN  ParseInt(SubSeq(x.digits, 1, dot - 1))

is_number(x) == x.t \in {"Integer", "Double"}
number(x) == IF x.t = "Integer" THEN x.value ELSE as_i64(x)

\* try_fold of prim_add and prim_sub: sign is 1 to add, -1 to subtract
RECURSIVE try_fold(_, _, _, _, _)
try_fold(args, acc, sign, msg, s) ==
    IF args = <<>> THEN Ok(Integer(acc), s)
    ELSE IF ~is_number(Head(args)) THEN Err(msg, s)
    ELSE LET r == acc + sign * number(Head(args))
         IN  IF overflows(r) /\ s.overflow_checks
             THEN Panic("attempt to add or subtract with overflow", s)
             ELSE try_fold(Tail(args), wrapping(r), sign, msg, s)

prim_add(args, env, s) ==
    IF assert_arg_count(args, AtLeast(1)) # "" THEN Err(assert_arg_count(args, AtLeast(1)), s)
    ELSE try_fold(args, 0, 1, "add requires integer or double arguments", s)

prim_sub(args, env, s) ==
    IF assert_arg_count(args, AtLeast(1)) # "" THEN Err(assert_arg_count(args, AtLeast(1)), s)
    ELSE IF ~is_number(Head(args)) THEN Err("sub requires integer or double arguments", s)
    ELSE try_fold(Tail(args), number(Head(args)), 0 - 1,
                  "sub requires integer or double arguments", s)

bool_symbol(b) == Symbol(IF b THEN "#t" ELSE "#f")

\* prim_lessthan, prim_morethan, prim_lessthanoreq, prim_morethanoreq
prim_compare(fun, args, env, s) ==
    IF assert_arg_count(args, Exact(2)) # "" THEN Err(assert_arg_count(args, Exact(2)), s)
    ELSE IF args[1].t = "Integer" /\ args[2].t = "Integer"
    THEN LET a == args[1].value
             b == args[2].value
         IN  CASE fun = "<" -> Ok(bool_symbol(a < b), s)
               [] fun = ">" -> Ok(bool_symbol(a > b), s)
               [] fun = "<=" -> Ok(bool_symbol(a <= b), s)
               [] fun = ">=" -> Ok(bool_symbol(a >= b), s)
    ELSE CASE fun = "<" -> Err("lessthan requires integer arguments", s)
           [] fun = ">" -> Err("morethan requires integer arguments", s)
           [] fun = "<=" -> Err("lessthanoreq requires integer arguments", s)
           [] fun = ">=" -> Err("morethanoreq requires integer arguments", s)

prim_list(args, env, s) == Ok(List(args), s)

\* Env::insert_model on the heap s: gen_id, then the store of frame env
insert_model(s, env, model) ==
    LET g == gen_id(s.COUNTER)
    IN  [id |-> g.id,
         st |-> [s EXCEPT !.COUNTER = g.next, !.frames = store_model(@, env, g.id, model)]]

return_model(model, env, s) ==
    LET m == insert_model(s, env, model)
    IN  Ok(Model(m.id), m.st)

load_stl(args, env, s) ==
    IF assert_arg_count(args, Exact(1)) # "" THEN Err(assert_arg_count(args, Exact(1)), s)
    ELSE IF args[1].t # "String" THEN Err("load_stl: expected string", s)
    ELSE IF args[1].str \in StlFiles THEN return_model("Mesh", env, s)
    ELSE Err("No such file or directory (os error 2)", s)

preview(args, env, s) ==
    IF assert_arg_count(args, Exact(1)) # "" THEN Err(assert_arg_count(args, Exact(1)), s)
    ELSE IF args[1].t # "Model" THEN Err("preview: expected solid or mesh model", s)
    ELSE LET model == get_model(s.frames, env, args[1].id)
         IN  CASE model = "None" ->
                    Err("Model with id " \o ToString(args[1].id) \o " not found", s)
               [] model = "Mesh" ->
                    Ok(args[1], [s EXCEPT !.frames = insert_preview_list(@, env, args[1].id)])
               [] model = "Solid" ->
                    LET m == insert_model(s, env, "Mesh")
                    IN  return_model("Mesh", env,
                            [m.st EXCEPT !.frames = insert_preview_list(@, env, m.id)])
               [] OTHER -> Err("preview: expected solid or mesh model", s)

point(args, env, s) ==
    IF assert_arg_count(args, Range(2, 3)) # ""
    THEN Err("point: " \o assert_arg_count(args, Range(2, 3)), s)
    ELSE IF \E i \in DOMAIN args : ~is_number(args[i])
    THEN Err("Expected number, got " \o
             args[CHOOSE i \in DOMAIN args :
                     ~is_number(args[i]) /\ \A j \in 1..(i - 1) : is_number(args[j])].t, s)
    ELSE return_model("Point3", env, s)

\* extract::number on each argument in turn: "" for Ok, else the first error
numbers(args) ==
    IF \A i \in DOMAIN args : is_number(args[i]) THEN ""
    ELSE "Expected number, got " \o
         args[CHOOSE i \in DOMAIN args :
                 ~is_number(args[i]) /\ \A j \in 1..(i - 1) : is_number(args[j])].t

\* circle: the wire of a circle arc is taken to lie in a plane, so that
\* try_attach_plane gives the face
circle(args, env, s) ==
    IF assert_arg_count(args, Exact(3)) # "" THEN Err(assert_arg_count(args, Exact(3)), s)
    ELSE IF numbers(args) # "" THEN Err(numbers(args), s)
    ELSE return_model("Face", env, s)

\* extract::face, then extract::number, then tsweep: a solid
linear_extrude(args, env, s) ==
    IF assert_arg_count(args, Exact(2)) # "" THEN Err(assert_arg_count(args, Exact(2)), s)
    ELSE IF args[1].t # "Model" THEN Err("Expected model, got " \o args[1].t, s)
    ELSE IF get_model(s.frames, env, args[1].id) = "None"
    THEN Err("Model with id " \o ToString(args[1].id) \o " not found", s)
    ELSE IF get_model(s.frames, env, args[1].id) # "Face" THEN Err("Expected face model", s)
    ELSE IF numbers(<<args[2]>>) # "" THEN Err(numbers(<<args[2]>>), s)
    ELSE return_model("Solid", env, s)

\* the primitives and special forms that default_env registers
Primitives == {"+", "-", "<", ">", "<=", ">=", "list", "p", "preview", "load_stl",
               "circle", "linear_extrude"}
SpecialForms == {"list?", "car", "cdr", "null?"}

\* fun(&evaled, env) of a Builtin
call_builtin(fun, args, env, s) ==
    CASE fun = "+" -> prim_add(args, env, s)
      [] fun = "-" -> prim_sub(args, env, s)
      [] fun \in {"<", ">", "<=", ">="} -> prim_compare(fun, args, env, s)
      [] fun = "list" -> prim_list(args, env, s)
      [] fun = "p" -> point(args, env, s)
      [] fun = "preview" -> preview(args, env, s)
      [] fun = "load_stl" -> load_stl(args, env, s)
      [] fun = "circle" -> circle(args, env, s)
      [] fun = "linear_extrude" -> linear_extrude(args, env, s)

default_env ==
    [new EXCEPT !.vars = [n \in Primitives \cup SpecialForms |->
                             IF n \in Primitives THEN Builtin(n) ELSE SpecialForm(n)]]

RECURSIVE eval(_, _, _, _)

\* eval_args: map eval over the arguments, stopping at the first that fails
RECURSIVE eval_args(_, _, _, _)

\* a mutant of eval_args: the arguments are handed on as they are written
eval_args_unevaluated(args, env, s, d) == Ok(args, s)

eval_args(args, env, s, d) ==
    IF args = <<>> THEN Ok(<<>>, s)
    ELSE LET r == eval(Head(args), env, s, d + 1)
         IN  IF r.k # "ok" THEN r
             ELSE LET rest == eval_args(Tail(args), env, r.st, d)
                  IN  IF rest.k # "ok" THEN rest ELSE Ok(<<r.v>> \o rest.v, rest.st)

prim_list_p(args, env, s, d) ==
    IF assert_arg_count(args, Exact(1)) # "" THEN Err(assert_arg_count(args, Exact(1)), s)
    ELSE LET arg == eval(args[1], env, s, d + 1)
         IN  IF arg.k # "ok" THEN arg ELSE Ok(bool_symbol(arg.v.t = "List"), arg.st)

prim_first(args, env, s, d) ==
    IF assert_arg_count(args, Exact(1)) # "" THEN Err(assert_arg_count(args, Exact(1)), s)
    ELSE LET arg == eval(args[1], env, s, d + 1)
         IN  IF arg.k # "ok" THEN arg
             ELSE IF arg.v.t # "List" THEN Err("first expects a list argument", arg.st)
             ELSE IF arg.v.elements = <<>>
             THEN Err("Cannot get first element of empty list", arg.st)
             ELSE Ok(arg.v.elements[1], arg.st)

prim_rest(args, env, s, d) ==
    IF assert_arg_count(args, Exact(1)) # "" THEN Err(assert_arg_count(args, Exact(1)), s)
    ELSE LET arg == eval(args[1], env, s, d + 1)
         IN  IF arg.k # "ok" THEN arg
             ELSE IF arg.v.t # "List" THEN Err("rest expects a list argument", arg.st)
             ELSE IF arg.v.elements = <<>> THEN Ok(List(<<>>), arg.st)
             ELSE Ok(List(Tail(arg.v.elements)), arg.st)

prim_null_p(args, env, s, d) ==
    IF assert_arg_count(args, Exact(1)) # "" THEN Err(assert_arg_count(args, Exact(1)), s)
    ELSE LET arg == eval(args[1], env, s, d + 1)
         IN  IF arg.k # "ok" THEN arg
             ELSE Ok(bool_symbol(arg.v.t = "List" /\ arg.v.elements = <<>>), arg.st)

\* fun(args, env) of a SpecialForm
call_special_form(fun, args, env, s, d) ==
    CASE fun = "list?" -> prim_list_p(args, env, s, d)
      [] fun = "car" -> prim_first(args, env, s, d)
      [] fun = "cdr" -> prim_rest(args, env, s, d)
      [] fun = "null?" -> prim_null_p(args, env, s, d)

RECURSIVE eval_quasiquote(_, _, _, _, _)

\* the loop of eval_quasiquote over the elements of a list
RECURSIVE quasiquote_elements(_, _, _, _, _, _)
quasiquote_elements(elements, env, s, d, nesting_level, result) ==
    IF elements = <<>> THEN Ok(List(result), s)
    ELSE LET r == eval_quasiquote(Head(elements), env, s, d, nesting_level)
         IN  IF r.k # "ok" THEN r
             ELSE quasiquote_elements(Tail(elements), env, r.st, d, nesting_level,
                                      Append(result, r.v))

eval_quasiquote(x, env, s, d, nesting_level) ==
    CASE x.t = "Unquote" ->
            IF nesting_level = 1 THEN eval(x.expr, env, s, d + 1)
            ELSE LET inner == eval_quasiquote(x.expr, env, s, d, nesting_level - 1)
                 IN  IF inner.k # "ok" THEN inner ELSE Ok(Unquote(inner.v), inner.st)
      [] x.t = "Quasiquote" ->
            LET inner == eval_quasiquote(x.expr, env, s, d, nesting_level + 1)
            IN  IF inner.k # "ok" THEN inner ELSE Ok(Quasiquote(inner.v), inner.st)
      [] x.t = "List" -> quasiquote_elements(x.elements, env, s, d, nesting_level, <<>>)
      [] OTHER -> Ok(x, s)

\* a mutant of eval_quasiquote_wrapper: the walk starts at level 2
eval_quasiquote_from_2(x, env, s, d) == eval_quasiquote(x, env, s, d, 2)

eval_quasiquote_wrapper(x, env, s, d) == eval_quasiquote(x, env, s, d, 1)

\* a mutant of truthy: only #t selects the first branch
truthy_only_t(name) == name = "#t"

\* eval_if: *name != "#f"
truthy(name) == name # "#f"

\* a mutant of eval_if: both branches are evaluated, the selected one last
eval_if_both(elements, env, s, d) ==
    IF assert_arg_count(elements, Exact(4)) # "" THEN Err(assert_arg_count(elements, Exact(4)), s)
    ELSE LET condition == eval(elements[2], env, s, d + 1)
         IN  IF condition.k # "ok" THEN condition
             ELSE IF condition.v.t = "Symbol"
             THEN IF truthy(condition.v.name)
                  THEN eval(elements[3], env, eval(elements[4], env, condition.st, d + 1).st, d + 1)
                  ELSE eval(elements[4], env, eval(elements[3], env, condition.st, d + 1).st, d + 1)
             ELSE Err("First argument of if must be a boolean", condition.st)

eval_if(elements, env, s, d) ==
    IF assert_arg_count(elements, Exact(4)) # "" THEN Err(assert_arg_count(elements, Exact(4)), s)
    ELSE LET condition == eval(elements[2], env, s, d + 1)
         IN  IF condition.k # "ok" THEN condition
             ELSE IF condition.v.t = "Symbol"
             THEN IF truthy(condition.v.name)
                  THEN eval(elements[3], env, condition.st, d + 1)
                  ELSE eval(elements[4], env, condition.st, d + 1)
             ELSE Err("First argument of if must be a boolean", condition.st)

\* the loop of eval_let over the bindings
RECURSIVE let_bindings(_, _, _, _)
let_bindings(bindings, newenv, s, d) ==
    IF bindings = <<>> THEN Ok(<<>>, s)
    ELSE LET binding == Head(bindings)
         IN  IF binding.t = "List" /\ Len(binding.elements) = 2
             THEN IF binding.elements[1].t # "Symbol" THEN Err("Not a symbol", s)
                  ELSE LET value == eval(binding.elements[2], newenv, s, d + 1)
                       IN  IF value.k # "ok" THEN value
                           ELSE let_bindings(Tail(bindings), newenv,
                                    [value.st EXCEPT !.frames =
                                        insert(@, newenv, binding.elements[1].name, value.v)],
                                    d)
             ELSE Err("Invalid let binding format", s)

\* a mutant of eval_let: the bindings are made in the current frame
eval_let_unframed(elements, env, s, d) ==
    IF assert_arg_count(elements, Exact(3)) # "" THEN Err(assert_arg_count(elements, Exact(3)), s)
    ELSE IF elements[2].t # "List" THEN Err("let requires a list of bindings", s)
    ELSE LET bound == let_bindings(elements[2].elements, env, s, d)
         IN  IF bound.k # "ok" THEN bound ELSE eval(elements[3], env, bound.st, d + 1)

eval_let(elements, env, s, d) ==
    IF assert_arg_count(elements, Exact(3)) # "" THEN Err(assert_arg_count(elements, Exact(3)), s)
    ELSE IF elements[2].t # "List" THEN Err("let requires a list of bindings", s)
    ELSE LET newenv == Len(s.frames) + 1
             bound == let_bindings(elements[2].elements, newenv, with_child(s, env), d)
         IN  IF bound.k # "ok" THEN bound ELSE eval(elements[3], newenv, bound.st, d + 1)

eval_lambda(elements, env, s, d) ==
    IF assert_arg_count(elements, Exact(3)) # "" THEN Err(assert_arg_count(elements, Exact(3)), s)
    ELSE IF elements[2].t # "List" THEN Err("lambda requires a list as an argument", s)
    ELSE LET newenv == Len(s.frames) + 1
         IN  IF ~all_symbols(elements[2].elements)
             THEN Panic("Lambda argument is not a symbol", with_child(s, env))
             ELSE Ok(Clausure(argnames(elements[2].elements), elements[3], newenv),
                     with_child(s, env))

\* a mutant of eval_define_impl: the name is bound to a placeholder before the
\* value is evaluated
eval_define_impl_early(elements, env, s, d) ==
    CASE elements[2].t = "Symbol" ->
            LET value == eval(elements[3], env,
                              [s EXCEPT !.frames = insert(@, env, elements[2].name, List(<<>>))],
                              d + 1)
            IN  IF value.k # "ok" THEN value
                ELSE Ok(value.v,
                        [value.st EXCEPT !.frames = insert(@, env, elements[2].name, value.v)])
      [] elements[2].t = "List" ->
            IF ~all_symbols(elements[2].elements)
            THEN Panic("Lambda argument is not a symbol", s)
            ELSE Err("Not a symbol", s)
      [] OTHER -> Err("define requires a symbol as an argument", s)

\* eval_define_impl.  In the List arm the closure and its new frame are dropped
\* when as_symbol fails on the name, which is a list there: no frame is added.
eval_define_impl(elements, env, s, d) ==
    CASE elements[2].t = "Symbol" ->
            LET value == eval(elements[3], env, s, d + 1)
            IN  IF value.k # "ok" THEN value
                ELSE Ok(value.v,
                        [value.st EXCEPT !.frames = insert(@, env, elements[2].name, value.v)])
      [] elements[2].t = "List" ->
            IF ~all_symbols(elements[2].elements)
            THEN Panic("Lambda argument is not a symbol", s)
            ELSE Err("Not a symbol", s)
      [] OTHER -> Err("define requires a symbol as an argument", s)

\* a mutant of eval_define: the list form is not rewritten
eval_define_unsugared(elements, env, s, d) == eval_define_impl(elements, env, s, d)

eval_define(elements, env, s, d) ==
    IF assert_arg_count(elements, Exact(3)) # "" THEN Err(assert_arg_count(elements, Exact(3)), s)
    ELSE IF elements[2].t = "List"
    THEN LET fn_and_args == elements[2].elements
         IN  IF fn_and_args = <<>>
             THEN Panic("index out of bounds: the len is 0 but the index is 0", s)
             ELSE eval_define_impl(
                     <<elements[1], fn_and_args[1],
                       List(<<Symbol("lambda"), List(Tail(fn_and_args)), elements[3]>>)>>,
                     env, s, d)
    ELSE eval_define_impl(elements, env, s, d)

eval_defmacro(elements, env, s, d) ==
    IF assert_arg_count(elements, Exact(3)) # "" THEN Err(assert_arg_count(elements, Exact(3)), s)
    ELSE IF elements[2].t # "List" THEN Err("defmacro requires a name and argument list", s)
    ELSE LET name_and_args == elements[2].elements
         IN  IF name_and_args = <<>> THEN Err("defmacro requires a name", s)
             ELSE IF name_and_args[1].t # "Symbol" THEN Err("Not a symbol", s)
             ELSE IF ~all_symbols(Tail(name_and_args))
             THEN Panic("Macro argument is not a symbol", s)
             ELSE LET macro_object == Macro(argnames(Tail(name_and_args)), elements[3], env)
                  IN  Ok(macro_object,
                         [s EXCEPT !.frames = insert(@, env, name_and_args[1].name, macro_object)])

\* a mutant of parent_env: the arguments are evaluated in the new frame
parent_env_newenv(env, newenv) == newenv

\* eval_list, Clausure arm: let parent_env = env.clone()
parent_env(env, newenv) == env

\* eval_list, Clausure arm: for (arg, value) in args.iter().zip(elements.iter().skip(1))
RECURSIVE bind_args(_, _, _, _, _, _)

\* a mutant of bind_args: a call with the wrong number of arguments is refused
bind_args_strict(args, values, env, newenv, s, d) ==
    IF Len(args) # Len(values) THEN Err("wrong number of arguments", s) ELSE Ok(<<>>, s)

\* a mutant of bind_args: the parameters are bound in the caller's frame
bind_args_caller(args, values, env, newenv, s, d) ==
    IF args = <<>> \/ values = <<>> THEN Ok(<<>>, s)
    ELSE LET val == eval(Head(values), parent_env(env, newenv), s, d + 1)
         IN  IF val.k # "ok" THEN val
             ELSE bind_args(Tail(args), Tail(values), env, newenv,
                            [val.st EXCEPT !.frames = insert(@, env, Head(args), val.v)], d)

bind_args(args, values, env, newenv, s, d) ==
    IF args = <<>> \/ values = <<>> THEN Ok(<<>>, s)
    ELSE LET val == eval(Head(values), parent_env(env, newenv), s, d + 1)
         IN  IF val.k # "ok" THEN val
             ELSE bind_args(Tail(args), Tail(values), env, newenv,
                            [val.st EXCEPT !.frames = insert(@, newenv, Head(args), val.v)], d)

\* a mutant of bind_unevaluated: no parameter is bound
bind_nothing(args, values, newenv, fs) == fs

\* eval_list, Macro arm: the arguments are bound as they are written
RECURSIVE bind_unevaluated(_, _, _, _)
bind_unevaluated(args, values, newenv, fs) ==
    IF args = <<>> \/ values = <<>> THEN fs
    ELSE bind_unevaluated(Tail(args), Tail(values), newenv,
                          insert(fs, newenv, Head(args), Head(values)))

eval_list(elements, env, s, d) ==
    IF elements = <<>> THEN Ok(List(<<>>), s)
    ELSE IF is_symbol(elements[1], "lambda") THEN eval_lambda(elements, env, s, d)
    ELSE IF is_symbol(elements[1], "define") THEN eval_define(elements, env, s, d)
    ELSE IF is_symbol(elements[1], "if") THEN eval_if(elements, env, s, d)
    ELSE IF is_symbol(elements[1], "let") THEN eval_let(elements, env, s, d)
    ELSE IF is_symbol(elements[1], "defmacro") THEN eval_defmacro(elements, env, s, d)
    ELSE LET first == eval(elements[1], env, s, d + 1)
             newenv == Len(first.st.frames) + 1
         IN  IF first.k # "ok" THEN first
             ELSE CASE first.v.t = "Builtin" ->
                         LET evaled == eval_args(Tail(elements), env, first.st, d)
                         IN  IF evaled.k # "ok" THEN evaled
                             ELSE call_builtin(first.v.fun, evaled.v, env,
                                               Log(evaled.st, [ev |-> "native", d |-> d,
                                                               fun |-> first.v.fun,
                                                               args |-> evaled.v, env |-> env,
                                                               frames |-> evaled.st.frames]))
                    [] first.v.t = "SpecialForm" ->
                         call_special_form(first.v.fun, Tail(elements), env,
                                           Log(first.st, [ev |-> "native", d |-> d,
                                                          fun |-> first.v.fun,
                                                          args |-> Tail(elements), env |-> env,
                                                          frames |-> first.st.frames]),
                                           d)
                    [] first.v.t = "Clausure" ->
                         LET s1 == Log(with_child(first.st, first.v.env),
                                       [ev |-> "apply", d |-> d, env |-> env,
                                        clausure |-> first.v, newenv |-> newenv,
                                        values |-> Tail(elements)])
                             bound == bind_args(first.v.args, Tail(elements), env, newenv, s1, d)
                         IN  IF bound.k # "ok" THEN bound
                             ELSE eval(first.v.body, newenv,
                                       Log(bound.st, [ev |-> "call", d |-> d, newenv |-> newenv,
                                                      frame |-> bound.st.frames[newenv],
                                                      frames |-> bound.st.frames]),
                                       d + 1)
                    [] first.v.t = "Macro" ->
                         LET s1 == [with_child(first.st, first.v.env) EXCEPT !.frames =
                                       bind_unevaluated(first.v.args, Tail(elements), newenv, @)]
                             expansion == eval(first.v.body, newenv,
                                               Log(s1, [ev |-> "expand", d |-> d, env |-> env,
                                                        macro |-> first.v, newenv |-> newenv,
                                                        values |-> Tail(elements),
                                                        frame |-> s1.frames[newenv]]),
                                               d + 1)
                         IN  IF expansion.k # "ok" THEN expansion
                             ELSE eval(expansion.v, env, expansion.st, d + 1)
                    [] OTHER ->
                         Err("First element of list is not a function, special form, or macro",
                             first.st)

\* the match of eval on the expression
eval_match(x, env, s, d) ==
    CASE x.t = "Symbol" ->
            IF get(s.frames, env, x.name) = NotFound
            THEN Err("Undefined symbol: " \o x.name, s)
            ELSE Ok(get(s.frames, env, x.name), s)
      [] x.t = "List" -> eval_list(x.elements, env, s, d)
      [] x.t = "Quote" -> Ok(x.expr, s)
      [] x.t = "Quasiquote" -> eval_quasiquote_wrapper(x.expr, env, s, d)
      [] x.t = "Unquote" -> Err("Unquote can only be used inside a quasiquote", s)
      [] OTHER -> Ok(x, s)

\* the return of eval, recorded in the trace
eval_return(r, d) ==
    [r EXCEPT !.st = Log(@, [ev |-> "ret", d |-> d, k |-> r.k, v |-> r.v, msg |-> r.msg,
                            frames |-> r.st.frames])]

eval(x, env, s, d) ==
    IF d > MaxDepth THEN Deep(s)
    ELSE eval_return(eval_match(x, env, Log(s, [ev |-> "eval", d |-> d, x |-> x, env |-> env,
                                                    vars |-> s.frames[env].vars,
                                                    frames |-> s.frames]), d), d)

\* parser.rs cast_evaled: the value handed to the host
RECURSIVE cast_evaled(_)
cast_evaled(x) ==
    CASE x.t = "Integer" -> [vt |-> "Integer", value |-> x.value]
      [] x.t = "Double" -> [vt |-> "Double", digits |-> x.digits]
      [] x.t = "Model" -> [vt |-> "Stl", id |-> x.id]
      [] x.t = "String" -> [vt |-> "String", str |-> x.str]
      [] x.t = "Symbol" -> [vt |-> "Symbol", name |-> x.name]
      [] x.t = "List" ->
            [vt |-> "List", elements |-> [i \in DOMAIN x.elements |-> cast_evaled(x.elements[i])]]
      [] x.t \in {"Quote", "Quasiquote", "Unquote"} -> cast_evaled(x.expr)
      [] x.t = "Builtin" -> [vt |-> "Symbol", name |-> "<builtin " \o x.fun \o ">"]
      [] x.t = "SpecialForm" -> [vt |-> "Symbol", name |-> "<special form " \o x.fun \o ">"]
      [] x.t = "Clausure" -> [vt |-> "Symbol", name |-> "<closure>"]
      [] x.t = "Macro" -> [vt |-> "Symbol", name |-> "<macro>"]

\* Env::polys: the meshes of the frame's own store
polys(fs, env) == {id \in DOMAIN fs[env].models : fs[env].models[id] = "Mesh"}

\* the loop of eval_exprs: every expression is evaluated, and the result of each
\* replaces the one before; only a panic leaves the loop
RECURSIVE eval_exprs_loop(_, _, _, _)

\* last_result = eval(..): the loop goes on whatever the result; a panic unwinds
eval_exprs_step(exprs, env, last_result) ==
    IF last_result.k \in {"panic", "deep"} THEN last_result
    ELSE eval_exprs_loop(exprs, env, last_result.st, last_result)

eval_exprs_loop(exprs, env, s, last_result) ==
    IF exprs = <<>> THEN [last_result EXCEPT !.st = s]
    ELSE eval_exprs_step(Tail(exprs), env, eval(Head(exprs), env, s, 0))

\* last_result.map(|expr| Evaled { value, polys, previews })
evaled(last_result, env) ==
    IF last_result.k = "ok"
    THEN Ok([value |-> cast_evaled(last_result.v),
             polys |-> polys(last_result.st.frames, env),
             previews |-> last_result.st.frames[env].preview_list], last_result.st)
    ELSE last_result

eval_exprs(exprs, env, s) == evaled(eval_exprs_loop(exprs, env, s, Ok(List(<<>>), s)), env)

(***************************************************************************)
(* SpecEval: the host evaluates programs, one after another, in one root   *)
(* environment made by default_env.                                        *)
(***************************************************************************)
\* eval_exprs calls per behaviour
MaxRuns == 2

\* the forms that eval_list recognizes by their head
Define(target, value) == List(<<Symbol("define"), target, value>>)
Lambda(params, body) == List(<<Symbol("lambda"), List(params), body>>)
If(c, a, b) == List(<<Symbol("if"), c, a, b>>)
Let(bindings, body) == List(<<Symbol("let"), List(bindings), body>>)
Defmacro(target, body) == List(<<Symbol("defmacro"), target, body>>)

\* the programs the host runs: sequences of top-level expressions
Programs ==
    { \* an undefined symbol, before and after a define
      <<Symbol("u"), Define(Symbol("b"), Integer(1))>>,
      <<Define(Symbol("b"), Integer(2)), Symbol("u")>>,
      \* malformed special forms
      <<Define(List(<<>>), Integer(1))>>,
      <<Define(List(<<List(<<Symbol("f")>>), Symbol("a")>>), Symbol("b"))>>,
      <<Lambda(<<Integer(1)>>, Symbol("x"))>>,
      <<Defmacro(List(<<Symbol("m"), Integer(1)>>), Symbol("x"))>>,
      \* arithmetic at the edge of the integer width
      <<List(<<Symbol("+"), Integer(IntMax), Integer(1)>>)>>,
      <<List(<<Symbol("-"), Integer(1), Integer(1)>>)>>,
      \* if, with conditions of every kind
      <<If(Integer(0), Integer(1), Integer(2))>>,
      <<If(String("s"), Integer(1), Integer(2))>>,
      <<If(List(<<Symbol("list"), Integer(1)>>), Integer(1), Integer(2))>>,
      <<If(List(<<Symbol("p"), Integer(1), Integer(2)>>), Integer(1), Integer(2))>>,
      <<If(Quote(Symbol("a")), Integer(1), Integer(2))>>,
      <<If(List(<<Symbol("<"), Integer(1), Integer(2)>>), Integer(1), Integer(2))>>,
      <<If(List(<<Symbol("<"), Integer(2), Integer(1)>>), Integer(1), Integer(2)),
        If(Integer(0), Integer(1), Integer(2))>>,
      <<If(Symbol("u"), Integer(1), Integer(2))>>,
      \* closures: definition, lexical scope, argument order
      <<Define(List(<<Symbol("f")>>), Integer(1)), List(<<Symbol("f")>>)>>,
      <<Define(Symbol("x"), Integer(1)), Define(List(<<Symbol("g")>>), Symbol("x"))>>,
      <<Let(<<List(<<Symbol("x"), Integer(2)>>)>>, List(<<Symbol("g")>>))>>,
      <<Define(Symbol("a"), Integer(5))>>,
      <<List(<<Lambda(<<Symbol("a"), Symbol("b")>>, Symbol("b")), Integer(1), Symbol("a")>>)>>,
      <<List(<<Lambda(<<Symbol("a"), Symbol("b")>>, List(<<Symbol("list"), Symbol("a"), Symbol("b")>>)),
               Define(Symbol("z"), Integer(1)), Symbol("z")>>)>>,
      <<List(<<Lambda(<<Symbol("a")>>, Symbol("a")), Symbol("u"), Integer(1)>>)>>,
      <<Define(List(<<Symbol("r"), Symbol("n")>>),
               If(List(<<Symbol("<"), Symbol("n"), Integer(1)>>), Integer(0),
                  List(<<Symbol("r"), List(<<Symbol("-"), Symbol("n"), Integer(1)>>)>>))),
        List(<<Symbol("r"), Integer(1)>>)>>,
      \* macros, let, quasiquote, the list special forms, models
      <<Defmacro(List(<<Symbol("m"), Symbol("x")>>), Symbol("x")),
        List(<<Symbol("m"), Integer(1)>>)>>,
      <<Let(<<List(<<Symbol("y"), Integer(1)>>), List(<<Symbol("w"), Symbol("y")>>)>>, Symbol("w"))>>,
      <<Quasiquote(List(<<Integer(1), Unquote(List(<<Symbol("+"), Integer(1), Integer(1)>>))>>))>>,
      <<List(<<Symbol("car"), Quote(List(<<Integer(1), Integer(2)>>))>>),
        List(<<Symbol("cdr"), Quote(List(<<Integer(1), Integer(2)>>))>>)>>,
      <<List(<<Symbol("null?"), Quote(List(<<>>))>>), List(<<Symbol("list?"), Integer(1)>>)>>,
      <<List(<<Symbol("preview"), List(<<Symbol("load_stl"), String("m.stl")>>)>>)>>,
      <<List(<<Symbol("preview"), List(<<Symbol("p"), Integer(1), Integer(2)>>)>>)>>,
      <<List(<<Integer(1), Integer(2)>>), List(<<>>)>>,
      \* macros: an argument the expansion drops, one it repeats; a macro defined in
      \* a let frame and called from the root frame
      <<Defmacro(List(<<Symbol("m0"), Symbol("x")>>), Integer(1)),
        Defmacro(List(<<Symbol("m2"), Symbol("x")>>),
                 Quasiquote(List(<<Symbol("list"), Unquote(Symbol("x")), Unquote(Symbol("x"))>>))),
        List(<<Symbol("m0"), Define(Symbol("w"), Integer(1))>>),
        List(<<Symbol("m2"), Define(Symbol("v"), Integer(1))>>)>>,
      <<Define(Symbol("mq"), Let(<<List(<<Symbol("q"), Integer(5)>>)>>,
                                 Defmacro(List(<<Symbol("m3")>>), Quote(Symbol("q"))))),
        Define(Symbol("mv"), Let(<<List(<<Symbol("q"), Integer(5)>>)>>,
                                 Defmacro(List(<<Symbol("m4")>>), Symbol("q")))),
        List(<<Symbol("mv")>>), List(<<Symbol("mq")>>)>>,
      \* quasiquote: unquotes at level 1 and 2, under a nested quasiquote and under a
      \* quote; an unquote that fails before a later one
      <<Define(Symbol("x"), Integer(2)),
        Quasiquote(List(<<Integer(1),
                          Quasiquote(List(<<Integer(2), Unquote(Symbol("x")),
                                            Unquote(Unquote(Symbol("x")))>>)),
                          Unquote(Symbol("x")),
                          Quote(Unquote(Symbol("u")))>>))>>,
      <<Quasiquote(List(<<Unquote(Symbol("u")), Unquote(Define(Symbol("w"), Integer(1)))>>))>>,
      \* let: a binding that shadows an outer one and is read by the next binding; a
      \* binding that fails before a later one
      <<Define(Symbol("a"), Integer(5)),
        Let(<<List(<<Symbol("a"), Integer(1)>>),
              List(<<Symbol("b"), List(<<Symbol("+"), Symbol("a"), Integer(1)>>)>>)>>,
            List(<<Symbol("+"), Symbol("a"), Symbol("b")>>))>>,
      <<Let(<<List(<<Symbol("a"), Symbol("u")>>),
              List(<<Symbol("b"), Define(Symbol("w"), Integer(1))>>)>>, Integer(1))>>,
      \* closure calls with too few and too many arguments
      <<Define(Symbol("b"), Integer(7)),
        List(<<Lambda(<<Symbol("a"), Symbol("b")>>, Symbol("b")), Integer(1)>>),
        List(<<Lambda(<<Symbol("a")>>, Symbol("a")), Integer(1), Define(Symbol("w"), Integer(1))>>),
        List(<<Lambda(<<Symbol("a"), Symbol("c")>>, Symbol("c")), Integer(1)>>)>>,
      \* the names of the special forms, bound by define, let and as a parameter
      <<Define(Symbol("if"), Integer(1)),
        If(List(<<Symbol("<"), Integer(1), Integer(2)>>), Integer(1), Integer(2)),
        Let(<<List(<<Symbol("define"), Integer(1)>>)>>, Define(Symbol("q"), Integer(3))),
        List(<<Lambda(<<Symbol("let")>>, Let(<<List(<<Symbol("y"), Integer(1)>>)>>, Symbol("y"))),
               Integer(1)>>)>>,
      \* builtin arguments: one that binds a name the next one reads, and one that
      \* fails before a later one; a special form given a quoted list
      <<List(<<Symbol("list"), Define(Symbol("z"), Integer(1)), Symbol("z")>>),
        List(<<Symbol("car"), Quote(List(<<Integer(1), Integer(2)>>))>>),
        List(<<Symbol("list"), Integer(1), Symbol("u"), Define(Symbol("w"), Integer(1))>>)>>
    }

InitEval ==
    /\ frames = <<default_env>>
    /\ COUNTER = 1
    /\ lockedBy = <<0>>
    /\ calls = [t \in Threads |-> Idle]
    /\ hist = <<>>
    /\ swept = {}
    /\ runs = 0
    /\ last = Other

\* the host calls eval_exprs on the root frame, in a build with or without
\* overflow checks
EvalExprs(exprs, overflow_checks) ==
    /\ runs < MaxRuns
    /\ \E r \in {eval_exprs(exprs, 1, [frames |-> frames, COUNTER |-> COUNTER, trace |-> <<>>,
                                        overflow_checks |-> overflow_checks])} :
           /\ frames' = r.st.frames
           /\ COUNTER' = r.st.COUNTER
           /\ last' = [op |-> "eval_exprs", exprs |-> exprs, k |-> r.k, v |-> r.v,
                       msg |-> r.msg, trace |-> r.st.trace]
    /\ runs' = runs + 1
    /\ UNCHANGED <<lockedBy, calls, hist, swept>>

NextEval == \E exprs \in Programs : \E overflow_checks \in BOOLEAN : EvalExprs(exprs, overflow_checks)

SpecEval == InitEval /\ [][NextEval]_vars

(***************************************************************************)
(* SpecHost: the host evaluates programs that build and preview models,    *)
(* and runs the collector on the root frame between them.                  *)
(***************************************************************************)
Call(f, args) == List(<<f>> \o args)

\* (load_stl "m.stl"), (p 1 2), (linear_extrude (circle 0 0 5) 1)
Mesh == Call(Symbol("load_stl"), <<String("m.stl")>>)
Point == Call(Symbol("p"), <<Integer(1), Integer(2)>>)
Solid == Call(Symbol("linear_extrude"),
              <<Call(Symbol("circle"), <<Integer(0), Integer(0), Integer(5)>>), Integer(1)>>)

HostPrograms ==
    { \* preview of a mesh and of a solid, at top level
      <<Call(Symbol("preview"), <<Mesh>>)>>,
      <<Call(Symbol("preview"), <<Solid>>)>>,
      \* a primitive that makes a model: at top level, in a closure body, in a let
      \* binding and in a let body
      <<Define(Symbol("s"), Point), Symbol("s")>>,
      <<Call(Lambda(<<>>, Point), <<>>)>>,
      <<Define(Symbol("s"), Let(<<List(<<Symbol("a"), Point>>)>>, Symbol("a")))>>,
      <<Let(<<>>, Point)>>,
      \* a model referenced only from the frame a closure captured
      <<Define(Symbol("f"), Call(Lambda(<<Symbol("m")>>, Lambda(<<>>, Symbol("m"))), <<Point>>))>>,
      <<Call(Symbol("f"), <<>>)>>,
      \* a mesh loaded and previewed in a closure body and in a let body
      <<Call(Lambda(<<>>, Call(Symbol("preview"), <<Mesh>>)), <<>>)>>,
      <<Let(<<>>, Call(Symbol("preview"), <<Mesh>>))>>,
      \* if: branches that bind, store, preview and fail, under a condition that is
      \* true, false, not a symbol, and undefined; a recursion that the condition ends
      <<If(Call(Symbol("<"), <<Integer(1), Integer(2)>>),
           Define(Symbol("t"), Integer(1)), Define(Symbol("e"), Point)),
        If(Call(Symbol("<"), <<Integer(2), Integer(1)>>),
           Call(Symbol("preview"), <<Mesh>>), Symbol("u")),
        If(Integer(0), Define(Symbol("t"), Integer(2)), Define(Symbol("e"), Integer(2))),
        If(Symbol("u"), Define(Symbol("t"), Integer(3)), Define(Symbol("e"), Integer(3)))>>,
      <<Define(List(<<Symbol("r"), Symbol("n")>>),
               If(Call(Symbol("<"), <<Symbol("n"), Integer(1)>>), Integer(0),
                  Call(Symbol("r"), <<Call(Symbol("-"), <<Symbol("n"), Integer(1)>>)>>))),
        Call(Symbol("r"), <<Integer(1)>>)>>,
      \* let: a binding that shadows one of the root frame and one that is new; a
      \* define in the body; a let nested in a let; a binding that fails
      <<Define(Symbol("a"), Integer(5)),
        Let(<<List(<<Symbol("a"), Integer(1)>>), List(<<Symbol("b"), Integer(2)>>)>>,
            Let(<<List(<<Symbol("a"), Integer(3)>>)>>,
                Define(Symbol("y"), Call(Symbol("list"), <<Symbol("a"), Symbol("b")>>)))),
        Let(<<List(<<Symbol("c"), Integer(1)>>), List(<<Symbol("d"), Symbol("u")>>)>>, Integer(1)),
        Call(Symbol("list"), <<Symbol("a"), Symbol("b")>>)>>,
      \* a closure that calls itself and reads its parameter after the inner call
      \* has returned, called from a frame that binds the parameter's name
      <<Define(Symbol("n"), Integer(7)),
        Define(List(<<Symbol("k"), Symbol("n")>>),
               If(Call(Symbol("<"), <<Symbol("n"), Integer(1)>>), Symbol("n"),
                  Call(Symbol("list"),
                       <<Call(Symbol("k"), <<Call(Symbol("-"), <<Symbol("n"), Integer(1)>>)>>),
                         Symbol("n")>>))),
        Call(Symbol("k"), <<Integer(1)>>)>>,
      \* define that fails: the value of a bound and of an unbound name fails, at once
      \* and after an effect of its own; too few and too many elements; a target
      \* that is a number, and one whose function name is a list
      <<Define(Symbol("a"), Integer(1)),
        Define(Symbol("a"), Symbol("u")),
        Define(Symbol("b"), Symbol("u")),
        Define(Symbol("c"), Call(Symbol("list"), <<Define(Symbol("d"), Integer(1)), Symbol("u")>>)),
        List(<<Symbol("define"), Symbol("a")>>),
        List(<<Symbol("define"), Symbol("a"), Integer(2), Integer(3)>>),
        Define(Integer(1), Integer(2)),
        Define(List(<<List(<<Symbol("a")>>), Symbol("x")>>), Integer(2)),
        Symbol("a")>>
    }

NextHost ==
    \/ \E exprs \in HostPrograms : \E overflow_checks \in BOOLEAN :
          EvalExprs(exprs, overflow_checks)
    \/ CollectGarbage(1)

SpecHost == InitEval /\ [][NextHost]_vars

(***************************************************************************)
(* Claims about the collector and the id counter                           *)
(***************************************************************************)
\* every id that occurs as a ModelRef in x, at any depth, in any variant
RECURSIVE RefsIn(_)
RefsIn(x) ==
    CASE x.t = "Model" -> {x.id}
      [] x.t = "List" -> UNION {RefsIn(x.elements[i]) : i \in DOMAIN x.elements}
      [] x.t \in {"Quote", "Quasiquote", "Unquote"} -> RefsIn(x.expr)
      [] x.t \in {"Clausure", "Macro"} -> RefsIn(x.body)
      [] OTHER -> {}

PreviewIds(fs, e) == {fs[e].preview_list[i] : i \in DOMAIN fs[e].preview_list}

\* ids referenced from the chain of e: by a bound value or by a preview list
ReferencedIds(fs, e) ==
    UNION {UNION {RefsIn(fs[g].vars[n]) : n \in DOMAIN fs[g].vars} \cup PreviewIds(fs, g) :
           g \in Chain(fs, e)}

Collected == last'.op = "collect_garbage"

\* C2: collect_garbage removes no id that a value bound in the chain (at any
\* nesting depth, in lists, quotes, quasiquote/unquote wrappers, closure and macro
\* bodies) or a preview list of the chain still references: get_model gives the same
\* object after the collection as before.
C2_ReferencedSurvive ==
    [][Collected =>
         \A id \in ReferencedIds(frames, last'.frame) :
            get_model(frames', last'.frame, id) = get_model(frames, last'.frame, id)]_vars

\* C3: after collect_garbage on a frame, no frame of its chain holds a store entry
\* whose id is outside the reachable set computed over the chain.
C3_WholeChainSwept ==
    [][Collected =>
         \A g \in Chain(frames, last'.frame) :
            DOMAIN frames'[g].models \subseteq mark_reachable(frames, last'.frame, {})]_vars

\* X is referenced from the body of a closure bound in frame e and from no preview entry
OnlyInClosureBody(fs, e, X) ==
    /\ \E n \in DOMAIN fs[e].vars :
          fs[e].vars[n].t = "Clausure" /\ X \in RefsIn(fs[e].vars[n].body)
    /\ X \notin PreviewIds(fs, e)

\* C4: on a parentless frame, an id referenced only from a bound closure's body still
\* resolves after a collection; with all bindings cleared a collection leaves every
\* id outside the preview list unresolvable; and an id that stopped resolving never
\* resolves again.
C4_ClosureBodyKeepsThenCleared ==
    [][/\ (Collected /\ frames[last'.frame].parent = NoParent) =>
            \A X \in DOMAIN frames[last'.frame].models :
               /\ OnlyInClosureBody(frames, last'.frame, X) =>
                     get_model(frames', last'.frame, X) # "None"
               /\ (frames[last'.frame].vars = EmptyMap /\ X \notin PreviewIds(frames, last'.frame)) =>
                     get_model(frames', last'.frame, X) = "None"
       /\ \A f \in DOMAIN frames, X \in Issued :
            (frames[f].parent = NoParent /\ X \in swept /\ get_model(frames, f, X) = "None") =>
               get_model(frames', f, X) = "None"]_vars

\* C9: the ids insert_model returns are pairwise distinct, each is greater than every
\* id returned by a call that had completed when it started, and none was swept or
\* was in a store before it was returned.
C9_IdsUnique ==
    /\ \A i, j \in DOMAIN hist : i # j => hist[i].id # hist[j].id
    /\ \A i \in DOMAIN hist : hist[i].id > hist[i].floor
    /\ \A i \in DOMAIN hist : hist[i].id \notin hist[i].sweptBefore /\ ~hist[i].live

\* two calls overlapped (they completed out of id order) and one returned after a sweep
C9_Witness ==
    /\ \E i, j \in DOMAIN hist : i < j /\ hist[i].id > hist[j].id
    /\ \E i \in DOMAIN hist : hist[i].sweptBefore # {}

\* C19: collection is idempotent: in every state and for every frame, a second
\* collect_garbage right after a first leaves the heap as the first left it.
C19_CollectIdempotent ==
    \A f \in DOMAIN frames :
        collect_garbage(collect_garbage(frames, f), f) = collect_garbage(frames, f)

\* a collection has just run that removed an entry and kept another, and running it
\* again changes nothing
C19_Witness ==
    /\ last.op = "collect_garbage"
    /\ swept # {}
    /\ \E f \in DOMAIN frames : DOMAIN frames[f].models # {}
    /\ collect_garbage(frames, last.frame) = frames

\* C20: collect_garbage changes object stores only, and only by removing entries:
\* the frames are the same in number, each keeps its bindings, preview list, parent
\* link and depth, every store entry that is left is as it was, and none is added.
C20_CollectOnlyRemoves ==
    [][Collected =>
          /\ DOMAIN frames' = DOMAIN frames
          /\ \A g \in DOMAIN frames :
                /\ frames'[g].vars = frames[g].vars
                /\ frames'[g].preview_list = frames[g].preview_list
                /\ frames'[g].parent = frames[g].parent
                /\ frames'[g].depth = frames[g].depth
                /\ DOMAIN frames'[g].models \subseteq DOMAIN frames[g].models
                /\ \A X \in DOMAIN frames'[g].models :
                      frames'[g].models[X] = frames[g].models[X]
          /\ COUNTER' = COUNTER]_vars

\* a collection has just removed an entry from a frame that has a binding, while a
\* preview list and another store entry of the chain are in place
C20_Witness ==
    /\ last.op = "collect_garbage"
    /\ swept # {}
    /\ frames[last.frame].vars # EmptyMap
    /\ \E g \in DOMAIN frames : frames[g].preview_list # <<>>
    /\ \E g \in DOMAIN frames : DOMAIN frames[g].models # {}
    /\ \E X \in swept : \A g \in DOMAIN frames : X \notin DOMAIN frames[g].models

(***************************************************************************)
(* Claims about the parser                                                 *)
(***************************************************************************)
\* tokens that make up an expression
RECURSIVE ExprTokens(_)
ExprTokens(e) ==
    CASE e.t = "List" ->
            2 + (LET RECURSIVE Sum(_)
                     Sum(k) == IF k = 0 THEN 0 ELSE ExprTokens(e.elements[k]) + Sum(k - 1)
                 IN  Sum(Len(e.elements)))
      [] e.t \in {"Quote", "Quasiquote", "Unquote"} -> 1 + ExprTokens(e.expr)
      [] OTHER -> 1

RECURSIVE SumTokens(_)
SumTokens(es) == IF es = <<>> THEN 0 ELSE ExprTokens(Head(es)) + SumTokens(Tail(es))

\* what tokenize left of the text is nothing but insignificant whitespace
WhollyTokenized(text) ==
    \A k \in many0_tokens(text, 1, <<>>).rest..Len(text) : text[k] \in SpaceChars

\* C6: parse_file returns Ok only if the whole text was tokenized and every token
\* went into the returned expressions; a text with a malformed token or an unmatched
\* parenthesis is an error, never Ok with the expressions of a prefix.
C6_AllOrNothing ==
    (last.op = "parse_file" /\ last.res.ok) =>
        /\ WhollyTokenized(last.text)
        /\ SumTokens(last.res.exprs)
             + Len(SelectSeq(tokenize(last.text).tokens, LAMBDA tk : tk.kind = "Newline"))
           = Len(tokenize(last.text).tokens)


(***************************************************************************)
(* Claims about the evaluator, read off the trace of the last eval_exprs   *)
(***************************************************************************)
Trace == IF last.op = "eval_exprs" /\ last.k # "deep" THEN last.trace ELSE <<>>

IsEval(i) == Trace[i].ev = "eval"

\* the return of the eval call that event i enters
ExitOf(i) ==
    CHOOSE j \in (i + 1)..Len(Trace) :
        /\ Trace[j].ev = "ret" /\ Trace[j].d = Trace[i].d
        /\ \A m \in (i + 1)..(j - 1) : ~(Trace[m].ev = "ret" /\ Trace[m].d = Trace[i].d)

RECURSIVE Ascending(_)
Ascending(S) ==
    IF S = {} THEN <<>>
    ELSE LET m == CHOOSE a \in S : \A b \in S : a <= b
         IN  <<m>> \o Ascending(S \ {m})

\* the eval calls made directly by the eval call that event i enters, in order
Children(i) ==
    Ascending({j \in (i + 1)..(ExitOf(i) - 1) : IsEval(j) /\ Trace[j].d = Trace[i].d + 1})

\* the eval call within which event i was logged
Enclosing(i) ==
    CHOOSE p \in 1..(i - 1) :
        /\ IsEval(p) /\ Trace[p].d = Trace[i].d
        /\ \A q \in (p + 1)..(i - 1) : ~(IsEval(q) /\ Trace[q].d = Trace[i].d)

SameResult(r1, r2) == r1.k = r2.k /\ r1.v = r2.v /\ r1.msg = r2.msg

\* C1: within one eval_exprs call, once a top-level expression returns an error no
\* later top-level expression is evaluated, and the call returns that first error.
C1_ShortCircuit ==
    \A i \in DOMAIN Trace :
        (Trace[i].ev = "ret" /\ Trace[i].d = 0 /\ Trace[i].k = "err") =>
            /\ \A j \in (i + 1)..Len(Trace) : ~(IsEval(j) /\ Trace[j].d = 0)
            /\ last.k = "err"
            /\ last.msg = Trace[i].msg

\* C5: no eval call ends in a panic: each returns Ok(value) or Err(message).
C5_NeverPanics ==
    \A i \in DOMAIN Trace : Trace[i].ev = "ret" => Trace[i].k # "panic"

\* the evaluations of a well-formed (if c a b)
IfEvals ==
    {i \in DOMAIN Trace :
        /\ IsEval(i) /\ Trace[i].x.t = "List" /\ Len(Trace[i].x.elements) = 4
        /\ is_symbol(Trace[i].x.elements[1], "if")}

\* the if entered at i made two eval calls, the second of its element n in its own
\* frame, and returned what that call returned
TookBranch(i, n) ==
    /\ Len(Children(i)) = 2
    /\ Trace[Children(i)[2]].x = Trace[i].x.elements[n]
    /\ Trace[Children(i)[2]].env = Trace[i].env
    /\ SameResult(Trace[ExitOf(i)], Trace[ExitOf(Children(i)[2])])

CondResult(i) == Trace[ExitOf(Children(i)[1])]

\* C7 as stated: when c evaluates to any value other than the symbol #f, the if
\* returns the result of a; when c evaluates to #f, the result of b.
C7_AnyValueTruthy ==
    \A i \in IfEvals :
        CondResult(i).k = "ok" =>
            IF CondResult(i).v = Symbol("#f") THEN TookBranch(i, 4) ELSE TookBranch(i, 3)

\* C7 amended: when c evaluates to a symbol other than #f the if returns the result
\* of a, when c evaluates to the symbol #f the result of b, and when c evaluates to a
\* value that is not a symbol the if evaluates neither branch and returns the error
\* "First argument of if must be a boolean".
C7_SymbolTruthy ==
    \A i \in IfEvals :
        CondResult(i).k = "ok" =>
            IF CondResult(i).v.t = "Symbol"
            THEN IF CondResult(i).v.name # "#f" THEN TookBranch(i, 3) ELSE TookBranch(i, 4)
            ELSE /\ Len(Children(i)) = 1
                 /\ Trace[ExitOf(i)].k = "err"
                 /\ Trace[ExitOf(i)].msg = "First argument of if must be a boolean"

\* an if whose condition is #f and one whose condition is the integer 0, in one run
C7_Witness ==
    /\ \E i \in IfEvals : CondResult(i).k = "ok" /\ CondResult(i).v = Symbol("#f")
    /\ \E i \in IfEvals : CondResult(i).k = "ok" /\ CondResult(i).v = Integer(0)

\* the frames that a value owns: those captured by the closures and macros in it
RECURSIVE EnvsIn(_)
EnvsIn(x) ==
    CASE x.t \in {"Clausure", "Macro"} -> {x.env} \cup EnvsIn(x.body)
      [] x.t = "List" -> UNION {EnvsIn(x.elements[i]) : i \in DOMAIN x.elements}
      [] x.t \in {"Quote", "Quasiquote", "Unquote"} -> EnvsIn(x.expr)
      [] OTHER -> {}

\* the frames that frame f owns: its parent, and those its bound values own
Owns(fs, f) ==
    (IF fs[f].parent = NoParent THEN {} ELSE {fs[f].parent})
        \cup UNION {EnvsIn(fs[f].vars[n]) : n \in DOMAIN fs[f].vars}

RECURSIVE OwnedFrom(_, _)
OwnedFrom(fs, S) ==
    LET next == S \cup UNION {Owns(fs, f) : f \in S}
    IN  IF next = S THEN S ELSE OwnedFrom(fs, next)

\* C8: the ownership graph is acyclic: following frame -> bound value -> captured
\* frame and frame -> parent never leads from a frame back to itself.
C8_OwnershipAcyclic ==
    \A f \in DOMAIN frames : f \notin OwnedFrom(frames, Owns(frames, f))

Applications == {i \in DOMAIN Trace : Trace[i].ev = "apply"}

\* the eval calls that a closure application made: arguments, then the body
CallsOf(i) ==
    Ascending({j \in (i + 1)..(ExitOf(Enclosing(i)) - 1) :
                  IsEval(j) /\ Trace[j].d = Trace[i].d + 1})

Paired(i) ==
    IF Len(Trace[i].clausure.args) <= Len(Trace[i].values)
    THEN Len(Trace[i].clausure.args) ELSE Len(Trace[i].values)

\* C10: a closure application evaluates the paired arguments in the caller's frame,
\* in parameter order, stopping at the first that fails; binds each value to its
\* parameter in a new frame whose parent is the frame the closure captured; and
\* evaluates the body in that new frame, whose chain is the new frame followed by
\* the captured chain, so that neither the caller's frame nor a parameter bound
\* earlier in the call is seen by an argument or, through the caller, by the body.
C10_ClosureApplication ==
    \A i \in Applications :
        LET a == Trace[i]
            n == Paired(i)
            made == CallsOf(i)
        IN  /\ a.newenv \notin Chain(frames, a.env)
            /\ frames[a.newenv].parent = a.clausure.env
            /\ Chain(frames, a.newenv) = {a.newenv} \cup Chain(frames, a.clausure.env)
            /\ Len(made) <= n + 1
            /\ \A k \in 1..Len(made) :
                  IF k <= n
                  THEN Trace[made[k]].x = a.values[k] /\ Trace[made[k]].env = a.env
                  ELSE Trace[made[k]].x = a.clausure.body /\ Trace[made[k]].env = a.newenv
            /\ \A k \in 1..(Len(made) - 1) : Trace[ExitOf(made[k])].k = "ok"
            /\ Len(made) < n + 1 => Trace[ExitOf(made[Len(made)])].k # "ok"
            /\ Len(made) = n + 1 =>
                  LET call == Trace[made[n + 1] - 1]
                  IN  /\ call.ev = "call" /\ call.newenv = a.newenv
                      /\ call.frame.parent = a.clausure.env
                      /\ DOMAIN call.frame.vars = {a.clausure.args[k] : k \in 1..n}
                      /\ \A k \in 1..n :
                            (\A m \in (k + 1)..n : a.clausure.args[m] # a.clausure.args[k]) =>
                                call.frame.vars[a.clausure.args[k]] = Trace[ExitOf(made[k])].v
                      /\ SameResult(Trace[ExitOf(Enclosing(i))], Trace[ExitOf(made[n + 1])])

\* a closure called from a let frame that binds x to 2 returned the 1 that x is
\* bound to in the chain it captured
C10_Witness ==
    /\ last.op = "eval_exprs" /\ last.k = "ok" /\ last.v.value = [vt |-> "Integer", value |-> 1]
    /\ \E i \in Applications :
          /\ Trace[i].env # 1
          /\ "x" \in DOMAIN frames[Trace[i].env].vars
          /\ frames[Trace[i].env].vars["x"] = Integer(2)
          /\ Trace[i].clausure.body = Symbol("x")

Expansions == {i \in DOMAIN Trace : Trace[i].ev = "expand"}

\* the expressions that occur in x, x included
RECURSIVE Subterms(_)
Subterms(x) ==
    {x} \cup
    CASE x.t = "List" -> UNION {Subterms(x.elements[i]) : i \in DOMAIN x.elements}
      [] x.t \in {"Quote", "Quasiquote", "Unquote"} -> Subterms(x.expr)
      [] OTHER -> {}

\* how many times e occurs in x
RECURSIVE Occurrences(_, _)
RECURSIVE OccurrencesIn(_, _)
OccurrencesIn(e, xs) ==
    IF xs = <<>> THEN 0 ELSE Occurrences(e, Head(xs)) + OccurrencesIn(e, Tail(xs))

Occurrences(e, x) ==
    IF x = e THEN 1
    ELSE CASE x.t = "List" -> OccurrencesIn(e, x.elements)
           [] x.t \in {"Quote", "Quasiquote", "Unquote"} -> Occurrences(e, x.expr)
           [] OTHER -> 0

\* the eval calls of e made within the eval call that event j enters, j included
EvalsOf(e, j) == {m \in j..ExitOf(j) : IsEval(m) /\ Trace[m].x = e}

\* the eval call entered at j applies no closure and no macro, so that it evaluates
\* only expressions that occur in its own expression
Plain(j) == \A m \in j..ExitOf(j) : Trace[m].ev \notin {"apply", "expand"}

\* C11: a macro application binds the paired parameters to the argument expressions
\* as written, in a new child frame of the frame the macro captured at its
\* definition; evaluates the body there; evaluates the expansion once, in the
\* caller's frame, and returns what that evaluation returns; and an argument that
\* does not occur in the body is not evaluated while the body is, and is evaluated
\* at most as often as it occurs in the expansion.
C11_MacroApplication ==
    \A i \in Expansions :
        LET a == Trace[i]
            n == IF Len(a.macro.args) <= Len(a.values) THEN Len(a.macro.args) ELSE Len(a.values)
            made == CallsOf(i)
            body == Trace[ExitOf(made[1])]
        IN  /\ a.newenv \notin Chain(frames, a.env)
            /\ a.frame.parent = a.macro.env
            /\ frames[a.newenv].parent = a.macro.env
            /\ DOMAIN a.frame.vars = {a.macro.args[k] : k \in 1..n}
            /\ \A k \in 1..n :
                  (\A m \in (k + 1)..n : a.macro.args[m] # a.macro.args[k]) =>
                      a.frame.vars[a.macro.args[k]] = a.values[k]
            /\ Len(made) >= 1
            /\ made[1] = i + 1
            /\ Trace[made[1]].x = a.macro.body /\ Trace[made[1]].env = a.newenv
            /\ IF body.k = "ok"
               THEN /\ Len(made) = 2
                    /\ Trace[made[2]].x = body.v /\ Trace[made[2]].env = a.env
                    /\ SameResult(Trace[ExitOf(Enclosing(i))], Trace[ExitOf(made[2])])
               ELSE /\ Len(made) = 1
                    /\ SameResult(Trace[ExitOf(Enclosing(i))], body)
            /\ \A k \in 1..Len(a.values) :
                  (a.values[k].t = "List" /\ a.values[k] \notin Subterms(a.macro.body)) =>
                      /\ Plain(made[1]) => EvalsOf(a.values[k], made[1]) = {}
                      /\ (Plain(made[1]) /\ Len(made) = 2 /\ Plain(made[2])) =>
                            Cardinality(EvalsOf(a.values[k], made[2])) <=
                                Occurrences(a.values[k], body.v)

\* in one run, a macro whose expansion drops its argument (define w 1), so that w
\* stays unbound, and one whose expansion holds its argument (define v 1) twice,
\* which is evaluated twice
C11_Witness ==
    /\ last.op = "eval_exprs" /\ last.k = "ok"
    /\ "w" \notin DOMAIN frames[1].vars
    /\ \E i \in Expansions :
          /\ Trace[i].values = <<Define(Symbol("w"), Integer(1))>>
          /\ Len(CallsOf(i)) = 2
          /\ EvalsOf(Trace[i].values[1], CallsOf(i)[2]) = {}
    /\ \E i \in Expansions :
          /\ Trace[i].values = <<Define(Symbol("v"), Integer(1))>>
          /\ Len(CallsOf(i)) = 2
          /\ Cardinality(EvalsOf(Trace[i].values[1], CallsOf(i)[2])) = 2

\* the payloads that the walk of x from the given level evaluates, in order: those of
\* the unquotes met at level 1; the walk enters lists, nested quasiquotes (level + 1)
\* and unquotes met at a level above 1 (level - 1), and nothing else
RECURSIVE Unquoted(_, _)
RECURSIVE UnquotedIn(_, _)
UnquotedIn(xs, level) ==
    IF xs = <<>> THEN <<>> ELSE Unquoted(Head(xs), level) \o UnquotedIn(Tail(xs), level)

Unquoted(x, level) ==
    CASE x.t = "Unquote" -> IF level = 1 THEN <<x.expr>> ELSE Unquoted(x.expr, level - 1)
      [] x.t = "Quasiquote" -> Unquoted(x.expr, level + 1)
      [] x.t = "List" -> UnquotedIn(x.elements, level)
      [] OTHER -> <<>>

\* x with each unquote met at level 1 replaced by the next of vals, all else kept
RECURSIVE Filled(_, _, _)
RECURSIVE FilledIn(_, _, _)
FilledIn(xs, level, vals) ==
    IF xs = <<>> THEN <<>>
    ELSE <<Filled(Head(xs), level, SubSeq(vals, 1, Len(Unquoted(Head(xs), level))))>> \o
         FilledIn(Tail(xs), level, SubSeq(vals, Len(Unquoted(Head(xs), level)) + 1, Len(vals)))

Filled(x, level, vals) ==
    CASE x.t = "Unquote" ->
            IF level = 1 THEN vals[1] ELSE Unquote(Filled(x.expr, level - 1, vals))
      [] x.t = "Quasiquote" -> Quasiquote(Filled(x.expr, level + 1, vals))
      [] x.t = "List" -> List(FilledIn(x.elements, level, vals))
      [] OTHER -> x

QuasiquoteEvals == {i \in DOMAIN Trace : IsEval(i) /\ Trace[i].x.t = "Quasiquote"}

\* C12: evaluating Quasiquote(e) evaluates, in the current frame and in order, the
\* payloads of exactly the unquotes that the walk of e from level 1 meets at level 1,
\* stopping at the first that fails, and returns e with each of those unquotes
\* replaced by its value and every other node, list structure and order kept.
C12_QuasiquoteLevels ==
    \A i \in QuasiquoteEvals :
        LET e == Trace[i].x.expr
            payloads == Unquoted(e, 1)
            made == Children(i)
            vals == [k \in DOMAIN made |-> Trace[ExitOf(made[k])].v]
        IN  /\ Len(made) <= Len(payloads)
            /\ \A k \in DOMAIN made :
                  Trace[made[k]].x = payloads[k] /\ Trace[made[k]].env = Trace[i].env
            /\ \A k \in 1..(Len(made) - 1) : Trace[ExitOf(made[k])].k = "ok"
            /\ IF \A k \in DOMAIN made : Trace[ExitOf(made[k])].k = "ok"
               THEN /\ Len(made) = Len(payloads)
                    /\ Trace[ExitOf(i)].k = "ok"
                    /\ Trace[ExitOf(i)].v = Filled(e, 1, vals)
               ELSE SameResult(Trace[ExitOf(i)], Trace[ExitOf(made[Len(made)])])

\* a template with x bound to 2: the unquote under one nested quasiquote is kept, the
\* doubly unquoted x there and the unquote at level 1 are replaced by 2, and the
\* unquote under a quote is kept
C12_Witness ==
    \E i \in QuasiquoteEvals :
        /\ Len(Children(i)) = 2
        /\ Trace[ExitOf(i)].k = "ok"
        /\ Trace[ExitOf(i)].v =
              List(<<Integer(1),
                     Quasiquote(List(<<Integer(2), Unquote(Symbol("x")), Unquote(Integer(2))>>)),
                     Integer(2),
                     Quote(Unquote(Symbol("u")))>>)

\* the evaluations of a well-formed (let ((n1 e1) ... (nk ek)) body)
LetEvals ==
    {i \in DOMAIN Trace :
        /\ IsEval(i) /\ Trace[i].x.t = "List" /\ Len(Trace[i].x.elements) = 3
        /\ is_symbol(Trace[i].x.elements[1], "let")
        /\ Trace[i].x.elements[2].t = "List"
        /\ \A k \in DOMAIN Trace[i].x.elements[2].elements :
              LET b == Trace[i].x.elements[2].elements[k]
              IN  b.t = "List" /\ Len(b.elements) = 2 /\ b.elements[1].t = "Symbol"}

\* C13: a let makes one child frame of the current frame; evaluates e1..ek in it in
\* order, stopping at the first that fails; ei is evaluated when the frame binds
\* exactly n1..n(i-1), each to the value of its expression; and the body is
\* evaluated in that same frame, its result being the result of the let.
C13_LetSequential ==
    \A i \in LetEvals :
        LET bindings == Trace[i].x.elements[2].elements
            k == Len(bindings)
            made == Children(i)
            name(m) == bindings[m].elements[1].name
        IN  /\ Len(made) >= 1 /\ Len(made) <= k + 1
            /\ LET newenv == Trace[made[1]].env
               IN  /\ newenv \notin Chain(frames, Trace[i].env)
                   /\ frames[newenv].parent = Trace[i].env
                   /\ \A m \in DOMAIN made :
                         /\ Trace[made[m]].env = newenv
                         /\ Trace[made[m]].x =
                               IF m <= k THEN bindings[m].elements[2] ELSE Trace[i].x.elements[3]
                         /\ DOMAIN Trace[made[m]].vars = {name(j) : j \in 1..(m - 1)}
                         /\ \A j \in 1..(m - 1) :
                               (\A h \in (j + 1)..(m - 1) : name(h) # name(j)) =>
                                   Trace[made[m]].vars[name(j)] = Trace[ExitOf(made[j])].v
            /\ \A m \in 1..(Len(made) - 1) : Trace[ExitOf(made[m])].k = "ok"
            /\ Len(made) < k + 1 => Trace[ExitOf(made[Len(made)])].k # "ok"
            /\ SameResult(Trace[ExitOf(i)], Trace[ExitOf(made[Len(made)])])

\* with a bound to 5 outside, (let ((a 1) (b (+ a 1))) (+ a b)) returned 3: the
\* second binding read the first
C13_Witness ==
    \E i \in LetEvals :
        /\ Len(Trace[i].x.elements[2].elements) = 2
        /\ "a" \in DOMAIN Trace[i].vars
        /\ Trace[i].vars["a"] = Integer(5)
        /\ Len(Children(i)) = 3
        /\ Trace[ExitOf(Children(i)[2])].v = Integer(2)
        /\ Trace[ExitOf(i)].k = "ok" /\ Trace[ExitOf(i)].v = Integer(3)

\* function definitions to compare: name, parameters, body, and a later call
SugarForms ==
    { [f |-> "f", params |-> <<>>, body |-> Integer(1), call |-> List(<<Symbol("f")>>)],
      [f |-> "a", params |-> <<Symbol("n"), Symbol("m")>>,
       body |-> List(<<Symbol("-"), Symbol("n"), Symbol("m")>>),
       call |-> List(<<Symbol("a"), Integer(2), Integer(1)>>)],
      [f |-> "r", params |-> <<Symbol("n")>>,
       body |-> If(List(<<Symbol("<"), Symbol("n"), Integer(1)>>), Integer(0),
                   List(<<Symbol("+"), Integer(1),
                          List(<<Symbol("r"), List(<<Symbol("-"), Symbol("n"), Integer(1)>>)>>)>>)),
       call |-> List(<<Symbol("r"), Integer(2)>>)],
      [f |-> "g", params |-> <<Symbol("n")>>, body |-> Symbol("x"),
       call |-> Let(<<List(<<Symbol("x"), Integer(3)>>)>>, List(<<Symbol("g"), Integer(0)>>))],
      [f |-> "h", params |-> <<Integer(1)>>, body |-> Symbol("x"), call |-> Integer(1)] }

Sugared(form) == Define(List(<<Symbol(form.f)>> \o form.params), form.body)
Desugared(form) == Define(Symbol(form.f), Lambda(form.params, form.body))

\* eval_exprs on the current root frame
RunHere(exprs) ==
    eval_exprs(exprs, 1, [frames |-> frames, COUNTER |-> COUNTER, trace |-> <<>>,
                          overflow_checks |-> TRUE])

SameOutcome(r1, r2) ==
    /\ SameResult(r1, r2)
    /\ r1.st.frames = r2.st.frames
    /\ r1.st.COUNTER = r2.st.COUNTER

\* the definition returned the closure it bound to f in the root frame: parameters
\* and body as written, capturing a new frame whose parent is the root frame
DefinesClosure(r, form) ==
    /\ r.k = "ok"
    /\ r.v.value = [vt |-> "Symbol", name |-> "<closure>"]
    /\ form.f \in DOMAIN r.st.frames[1].vars
    /\ LET c == r.st.frames[1].vars[form.f]
       IN  /\ c.t = "Clausure"
           /\ c.args = argnames(form.params)
           /\ c.body = form.body
           /\ c.env \notin DOMAIN frames
           /\ r.st.frames[c.env].parent = 1
           /\ r.st.frames[c.env].vars = EmptyMap
           /\ r.st.trace[Len(r.st.trace)].v = c

\* C14: from the same environment, (define (f p1 ... pn) body) and
\* (define f (lambda (p1 ... pn) body)) have the same outcome: with symbols for
\* parameters both bind f in the current frame to a closure with those parameters
\* and that body over a new child of the current frame and return it, and a later
\* call of f, recursive calls included, has the same outcome after either.
C14_DefineSugar ==
    \A form \in SugarForms :
        /\ SameOutcome(RunHere(<<Sugared(form)>>), RunHere(<<Desugared(form)>>))
        /\ all_symbols(form.params) =>
              /\ DefinesClosure(RunHere(<<Sugared(form)>>), form)
              /\ DefinesClosure(RunHere(<<Desugared(form)>>), form)
        /\ SameOutcome(RunHere(<<Sugared(form), form.call>>),
                       RunHere(<<Desugared(form), form.call>>))

\* after a run that defined the recursive r by the list form and called it, both
\* forms of the recursive definition in SugarForms make (r 2) return 2
C14_Witness ==
    /\ last.op = "eval_exprs" /\ last.k = "ok"
    /\ "r" \in DOMAIN frames[1].vars
    /\ frames[1].vars["r"].t = "Clausure"
    /\ frames[frames[1].vars["r"].env].parent = 1
    /\ \E form \in SugarForms :
          /\ form.f = "r"
          /\ RunHere(<<Sugared(form), form.call>>).v.value = [vt |-> "Integer", value |-> 2]
          /\ RunHere(<<Desugared(form), form.call>>).v.value = [vt |-> "Integer", value |-> 2]

\* the closure applications whose argument count differs from the parameter count
Mismatched == {i \in Applications : Len(Trace[i].clausure.args) # Len(Trace[i].values)}

\* the parameters of the application at i that no argument was paired with
Surplus(i) == {Trace[i].clausure.args[k] : k \in (Paired(i) + 1)..Len(Trace[i].clausure.args)}

\* C15: a closure call whose argument count differs from its parameter count is not
\* refused: only the paired arguments are evaluated and bound, the body is evaluated
\* once they succeeded and its result returned; the call frame binds no surplus
\* parameter, and a reference to one in the body that finds no binding in the call
\* frame returns what the captured chain binds it to, or an undefined-symbol error.
C15_ArityZip ==
    \A i \in Mismatched :
        LET a == Trace[i]
            n == Paired(i)
            made == CallsOf(i)
        IN  /\ Len(made) <= n + 1
            /\ \A k \in 1..Len(made) : k <= n => Trace[made[k]].x = a.values[k]
            /\ (\A k \in 1..Len(made) : k <= n => Trace[ExitOf(made[k])].k = "ok") =>
                  /\ Len(made) = n + 1
                  /\ Trace[made[n + 1]].x = a.clausure.body
                  /\ Trace[made[n + 1]].env = a.newenv
                  /\ DOMAIN Trace[made[n + 1]].vars = {a.clausure.args[k] : k \in 1..n}
                  /\ SameResult(Trace[ExitOf(Enclosing(i))], Trace[ExitOf(made[n + 1])])
                  /\ \A p \in Surplus(i) \ DOMAIN Trace[made[n + 1]].vars :
                        a.clausure.body = Symbol(p) =>
                            LET call == Trace[made[n + 1] - 1]
                                r == Trace[ExitOf(made[n + 1])]
                            IN  IF get(call.frames, a.clausure.env, p) = NotFound
                                THEN r.k = "err" /\ r.msg = "Undefined symbol: " \o p
                                ELSE r.k = "ok" /\ r.v = get(call.frames, a.clausure.env, p)

\* in one run: a call short of one argument whose surplus parameter b was read from
\* the captured chain, a call with a surplus argument (define w 1) that left w
\* unbound, and a call whose surplus parameter c was undefined
C15_Witness ==
    /\ last.op = "eval_exprs" /\ last.msg = "Undefined symbol: c"
    /\ "w" \notin DOMAIN frames[1].vars
    /\ \E i \in Mismatched :
          /\ Surplus(i) = {"b"}
          /\ Trace[ExitOf(Enclosing(i))].k = "ok"
          /\ Trace[ExitOf(Enclosing(i))].v = Integer(7)
    /\ \E i \in Mismatched :
          /\ Len(Trace[i].values) = 2 /\ Paired(i) = 1
          /\ Trace[ExitOf(Enclosing(i))].k = "ok"
          /\ Trace[ExitOf(Enclosing(i))].v = Integer(1)
    /\ \E i \in Mismatched : Surplus(i) = {"c"} /\ Trace[ExitOf(Enclosing(i))].k = "err"

\* the heads that eval_list handles itself
FormHeads == {"lambda", "define", "if", "let", "defmacro"}

\* the evaluations of a list whose head is one of those symbols
FormEvals ==
    {i \in DOMAIN Trace :
        /\ IsEval(i) /\ Trace[i].x.t = "List" /\ Trace[i].x.elements # <<>>
        /\ \E h \in FormHeads : Trace[i].x.elements[1] = Symbol(h)}

\* one list per head, and the ways of binding the head's name around it
FormOf(h) ==
    CASE h = "lambda" -> Lambda(<<Symbol("n")>>, Symbol("n"))
      [] h = "define" -> Define(Symbol("q"), Integer(3))
      [] h = "if" -> If(List(<<Symbol("<"), Integer(1), Integer(2)>>), Integer(1), Integer(2))
      [] h = "let" -> Let(<<List(<<Symbol("y"), Integer(1)>>)>>, Symbol("y"))
      [] h = "defmacro" -> Defmacro(List(<<Symbol("mm"), Symbol("x")>>), Symbol("x"))

Rebound(h, value) ==
    { <<Define(Symbol(h), value), FormOf(h)>>,
      <<Let(<<List(<<Symbol(h), value>>)>>, FormOf(h))>>,
      <<List(<<Lambda(<<Symbol(h)>>, FormOf(h)), value>>)>>,
      <<Defmacro(List(<<Symbol("mh"), Symbol(h)>>), FormOf(h)),
        List(<<Symbol("mh"), value>>)>> }

\* what the host sees of a result
Seen(r) == [k |-> r.k, msg |-> r.msg, value |-> IF r.k = "ok" THEN r.v.value ELSE NoValue]

\* C16: a list headed by lambda, define, if, let or defmacro is evaluated by the
\* handler of that head and the head is never looked up: no evaluation of such a
\* list evaluates its head symbol (unless the symbol is also an operand), and with
\* the head's name bound by define, by let, as a closure parameter or as a macro
\* parameter the list evaluates to what it evaluates to without that binding.
C16_HeadsNotLookedUp ==
    /\ \A i \in FormEvals :
          Trace[i].x.elements[1] \notin
                UNION {Subterms(Trace[i].x.elements[k]) : k \in 2..Len(Trace[i].x.elements)} =>
             \A k \in DOMAIN Children(i) : Trace[Children(i)[k]].x # Trace[i].x.elements[1]
    /\ \A h \in FormHeads, value \in {Integer(1), Symbol("+")} :
          \A exprs \in Rebound(h, value) :
              Seen(RunHere(exprs)) = Seen(RunHere(<<FormOf(h)>>))

\* with if bound to 1 in the root frame an if returned its first branch, with define
\* bound by a let a define bound q, and with let bound as a parameter a let ran
C16_Witness ==
    /\ last.op = "eval_exprs" /\ last.k = "ok"
    /\ "if" \in DOMAIN frames[1].vars
    /\ \E i \in FormEvals :
          /\ Trace[i].x.elements[1] = Symbol("if")
          /\ "if" \in DOMAIN Trace[i].vars
          /\ Trace[ExitOf(i)].k = "ok" /\ Trace[ExitOf(i)].v = Integer(1)
    /\ \E i \in FormEvals :
          /\ Trace[i].x.elements[1] = Symbol("define")
          /\ "define" \in DOMAIN Trace[i].vars
          /\ Trace[ExitOf(i)].k = "ok" /\ Trace[ExitOf(i)].v = Integer(3)
    /\ \E i \in FormEvals :
          /\ Trace[i].x.elements[1] = Symbol("let")
          /\ "let" \in DOMAIN Trace[i].vars
          /\ Trace[ExitOf(i)].k = "ok"

\* the evaluations of a list that evaluated its head, to a value of the given kind
HeadEvals(kind) ==
    {i \in DOMAIN Trace :
        /\ IsEval(i) /\ Trace[i].x.t = "List" /\ Trace[i].x.elements # <<>>
        /\ i \notin FormEvals
        /\ Children(i) # <<>>
        /\ Trace[ExitOf(Children(i)[1])].k = "ok"
        /\ Trace[ExitOf(Children(i)[1])].v.t = kind}

\* the calls of a native function made by the evaluation entered at i
NativeCalls(i) ==
    {m \in (i + 1)..(ExitOf(i) - 1) : Trace[m].ev = "native" /\ Trace[m].d = Trace[i].d}

\* C17: when the head is a Builtin the remaining elements are evaluated left to
\* right in the caller's frame, stopping at the first that fails; the native
\* function is called once, after them, with their values, only if all succeeded,
\* and else is not called and the failure is the result.  When the head is a
\* SpecialForm the native function is called at once with the elements as written:
\* the evaluator evaluates none of them before the call.
C17_ArgumentEvaluation ==
    /\ \A i \in HeadEvals("Builtin") :
          LET made == Children(i)
              n == Len(Trace[i].x.elements) - 1
              outs == [k \in 1..(Len(made) - 1) |-> Trace[ExitOf(made[k + 1])]]
          IN  /\ Len(made) <= n + 1
              /\ \A k \in DOMAIN outs :
                    /\ Trace[made[k + 1]].x = Trace[i].x.elements[k + 1]
                    /\ Trace[made[k + 1]].env = Trace[i].env
                    /\ k < Len(outs) => outs[k].k = "ok"
              /\ IF \A k \in DOMAIN outs : outs[k].k = "ok"
                 THEN /\ Len(outs) = n
                      /\ \E m \in NativeCalls(i) :
                            /\ NativeCalls(i) = {m}
                            /\ \A k \in DOMAIN made : ExitOf(made[k]) < m
                            /\ Trace[m].fun = Trace[ExitOf(made[1])].v.fun
                            /\ Trace[m].args = [k \in DOMAIN outs |-> outs[k].v]
                            /\ Trace[m].env = Trace[i].env
                 ELSE /\ NativeCalls(i) = {}
                      /\ SameResult(Trace[ExitOf(i)], outs[Len(outs)])
    /\ \A i \in HeadEvals("SpecialForm") :
          /\ NativeCalls(i) = {ExitOf(Children(i)[1]) + 1}
          /\ \A m \in NativeCalls(i) :
                /\ Trace[m].fun = Trace[ExitOf(Children(i)[1])].v.fun
                /\ Trace[m].args = Tail(Trace[i].x.elements)
                /\ Trace[m].env = Trace[i].env

\* in one run: list called with the values 1 and 1, the second read from the binding
\* the first argument made; car called with the quote as written; and list not
\* called when its second argument failed, the third left unevaluated
C17_Witness ==
    /\ last.op = "eval_exprs" /\ last.msg = "Undefined symbol: u"
    /\ "w" \notin DOMAIN frames[1].vars
    /\ \E i \in HeadEvals("Builtin") :
          \E m \in NativeCalls(i) :
              Trace[m].fun = "list" /\ Trace[m].args = <<Integer(1), Integer(1)>>
    /\ \E i \in HeadEvals("SpecialForm") :
          \E m \in NativeCalls(i) :
              Trace[m].fun = "car" /\ Trace[m].args = <<Quote(List(<<Integer(1), Integer(2)>>))>>
    /\ \E i \in HeadEvals("Builtin") :
          /\ Len(Trace[i].x.elements) = 4
          /\ Len(Children(i)) = 3
          /\ NativeCalls(i) = {}

\* the evaluations of a symbol that no frame of the chain of its frame binds
UnboundEvals ==
    {i \in DOMAIN Trace :
        /\ IsEval(i) /\ Trace[i].x.t = "Symbol"
        /\ \A g \in Chain(Trace[i].frames, Trace[i].env) :
              Trace[i].x.name \notin DOMAIN Trace[i].frames[g].vars}

\* C18: evaluating a symbol bound in no frame of the chain returns the error
\* "Undefined symbol: <name>" and leaves every frame as it was: bindings, object
\* stores, preview lists and parent links.
C18_UndefinedSymbol ==
    \A i \in UnboundEvals :
        /\ ExitOf(i) = i + 1
        /\ Trace[ExitOf(i)].k = "err"
        /\ Trace[ExitOf(i)].msg = "Undefined symbol: " \o Trace[i].x.name
        /\ Trace[ExitOf(i)].frames = Trace[i].frames

\* the surplus parameter c was evaluated in a call frame whose chain has three
\* frames, none binding it, while the call frame binds a
C18_Witness ==
    \E i \in UnboundEvals :
        /\ Trace[i].x = Symbol("c")
        /\ Cardinality(Chain(Trace[i].frames, Trace[i].env)) = 3
        /\ Trace[i].vars # EmptyMap
        /\ Trace[ExitOf(i)].k = "err"

(***************************************************************************)
(* Claims about models, previews and the collector under SpecHost          *)
(***************************************************************************)
\* the calls of preview that returned Ok
PreviewCalls ==
    {m \in DOMAIN Trace :
        /\ Trace[m].ev = "native" /\ Trace[m].fun = "preview"
        /\ Trace[ExitOf(Enclosing(m))].k = "ok"}

\* C21: a successful (preview m) appends exactly one id to the preview list of its
\* frame, leaves every other preview list alone, and returns the ModelRef of that
\* id, when m is a mesh and when m is a solid.
C21_PreviewReturnsMarked ==
    \A m \in PreviewCalls :
        LET out == Trace[ExitOf(Enclosing(m))]
            before == Trace[m].frames
            e == Trace[m].env
        IN  /\ Len(out.frames[e].preview_list) = Len(before[e].preview_list) + 1
            /\ SubSeq(out.frames[e].preview_list, 1, Len(before[e].preview_list))
                   = before[e].preview_list
            /\ \A g \in DOMAIN before : g # e => out.frames[g].preview_list = before[g].preview_list
            /\ out.v = Model(out.frames[e].preview_list[Len(out.frames[e].preview_list)])

\* the ids of the store entries of all frames
Stored(fs) == UNION {DOMAIN fs[g].models : g \in DOMAIN fs}

\* the eval calls that returned Ok(ModelRef id) for an id stored during the call
FreshModelEvals ==
    {i \in DOMAIN Trace :
        /\ IsEval(i)
        /\ Trace[ExitOf(i)].k = "ok"
        /\ Trace[ExitOf(i)].v.t = "Model"
        /\ Trace[ExitOf(i)].v.id \notin Stored(Trace[i].frames)
        /\ Trace[ExitOf(i)].v.id \in Stored(Trace[ExitOf(i)].frames)}

\* C22: when eval in frame E returns Ok(ModelRef id), the value of a define
\* included, and id was stored during that evaluation, get_model(id) on E finds
\* the object once the evaluation has returned.
C22_ReturnedRefResolves ==
    \A i \in FreshModelEvals :
        get_model(Trace[ExitOf(i)].frames, Trace[i].env, Trace[ExitOf(i)].v.id) # "None"

\* C23: once collect_garbage has run on the root frame, no evaluation in the root
\* frame returns a ModelRef whose id that collection removed; a model referenced
\* only from a frame that a closure bound in the root frame captured survives.
C23_CollectedNeverReturned ==
    \A i \in DOMAIN Trace :
        (IsEval(i) /\ Trace[i].env = 1 /\ Trace[ExitOf(i)].k = "ok"
            /\ Trace[ExitOf(i)].v.t = "Model")
        => Trace[ExitOf(i)].v.id \notin swept

\* the ids that the native call logged at m pushed on the preview list of its frame
Pushed(m) ==
    LET out == Trace[ExitOf(Enclosing(m))].frames[Trace[m].env].preview_list
    IN  SubSeq(out, Len(Trace[m].frames[Trace[m].env].preview_list) + 1, Len(out))

\* the ids pushed by the native calls ms, in the order of the calls
RECURSIVE PushedBy(_)
PushedBy(ms) == IF ms = <<>> THEN <<>> ELSE Pushed(Head(ms)) \o PushedBy(Tail(ms))

\* the ids passed to insert_preview_list during the run, in call order
PreviewedInRun == PushedBy(Ascending({m \in DOMAIN Trace : Trace[m].ev = "native"}))

\* the meshes stored during the run, in any frame
MeshesOfRun ==
    {id \in Stored(frames) \ Stored(Trace[1].frames) :
        \E g \in DOMAIN frames : id \in DOMAIN frames[g].models /\ frames[g].models[id] = "Mesh"}

\* C24: when eval_exprs returns Ok, the previews of the summary are the preview
\* list the root frame had before the run followed by every id passed to
\* insert_preview_list during the run, in call order, and the polys of the summary
\* hold every mesh stored during the run, whichever frame the primitive ran in.
C24_SummaryComplete ==
    (last.op = "eval_exprs" /\ last.k = "ok" /\ Trace # <<>>) =>
        /\ last.v.previews = Trace[1].frames[1].preview_list \o PreviewedInRun
        /\ MeshesOfRun \subseteq last.v.polys

(***************************************************************************)
(* Claims about host threads                                               *)
(***************************************************************************)
\* C25: with a collector thread running beside a thread that evaluates
\* (define s (prim ..)), once every thread has finished each binding of a ModelRef
\* resolves: get_model on the frame of the binding returns the object.
C25_NoDanglingBinding ==
    (\A t \in Threads : calls[t].pc = "idle") =>
        \A f \in DOMAIN frames : \A n \in DOMAIN frames[f].vars :
            frames[f].vars[n].t = "Model" =>
                get_model(frames, f, frames[f].vars[n].id) # "None"

\* the threads whose next step no lock holds up
Free == {t \in Threads : calls[t].pc = "unwind" \/ (calls[t].pc = "lock" /\ lockedBy[calls[t].want] = 0)}

\* C26: a call that waits for a frame's lock holds no lock, or holds only locks of
\* frames of which the awaited frame is a strict ancestor, and never waits for a
\* lock it holds itself; and whenever some call is under way, some call can take
\* its next step: the threads never all wait for each other.
C26_NoDeadlock ==
    /\ \A t \in Threads :
          calls[t].pc = "lock" =>
              /\ lockedBy[calls[t].want] # t
              /\ \A i \in DOMAIN calls[t].held :
                    calls[t].want \in Chain(frames, calls[t].held[i]) \ {calls[t].held[i]}
    /\ \A t \in Threads : \A g \in DOMAIN frames :
          lockedBy[g] = t <=> \E i \in DOMAIN calls[t].held : calls[t].held[i] = g
    /\ (\E t \in Threads : calls[t].pc # "idle") => Free # {}

\* a call that holds the locks of the grandchild and of the child waits for the
\* root frame, which the call of the other thread holds
C26_Witness ==
    \E t \in Threads, u \in Threads :
        /\ t # u
        /\ calls[t].pc = "lock"
        /\ calls[t].held = <<3, 2>>
        /\ calls[t].want = 1
        /\ lockedBy[1] = u
        /\ Free = {u}

(***************************************************************************)
(* Claims about the effects of if, let, closure calls and define           *)
(***************************************************************************)
\* the frames as the eval call entered at i found them, and as it left them
FramesAt(i) == Trace[i].frames
FramesAfter(i) == Trace[ExitOf(i)].frames

\* C27: an if evaluates its condition and then at most one branch.  If the
\* condition fails or its value is not a symbol, no branch is evaluated and the
\* frames stay as the condition left them.  Else the one eval call after the
\* condition is of the selected branch; it starts from the frames the condition
\* left, and the frames it leaves are those the if leaves: nothing of the other
\* branch is evaluated, bound, stored or previewed, and no error of it is returned.
C27_OneBranch ==
    \A i \in IfEvals :
        LET made == Children(i)
        IN  /\ Len(made) \in {1, 2}
            /\ Trace[made[1]].x = Trace[i].x.elements[2]
            /\ FramesAt(made[1]) = FramesAt(i)
            /\ FramesAfter(i) = FramesAfter(made[Len(made)])
            /\ IF CondResult(i).k = "ok" /\ CondResult(i).v.t = "Symbol"
               THEN /\ Len(made) = 2
                    /\ Trace[made[2]].x =
                          Trace[i].x.elements[IF CondResult(i).v.name # "#f" THEN 3 ELSE 4]
                    /\ FramesAt(made[2]) = FramesAfter(made[1])
                    /\ SameResult(Trace[ExitOf(i)], Trace[ExitOf(made[2])])
               ELSE /\ Len(made) = 1
                    /\ Trace[ExitOf(i)].k = "err"

\* in one run: a true condition bound t and left e unbound and the store empty, a
\* false condition returned the error of the second branch with nothing previewed,
\* and a failing condition evaluated no branch
C27_Witness ==
    /\ last.op = "eval_exprs"
    /\ \E i \in IfEvals :
          /\ Trace[i].x.elements[4] = Define(Symbol("e"), Point)
          /\ Trace[ExitOf(i)].k = "ok"
          /\ "t" \in DOMAIN FramesAfter(i)[1].vars
          /\ "e" \notin DOMAIN FramesAfter(i)[1].vars
          /\ Stored(FramesAfter(i)) = Stored(FramesAt(i))
    /\ \E i \in IfEvals :
          /\ Trace[i].x.elements[4] = Symbol("u")
          /\ Len(Children(i)) = 2
          /\ Trace[ExitOf(i)].msg = "Undefined symbol: u"
          /\ FramesAfter(i) = FramesAt(i)
    /\ \E i \in IfEvals :
          /\ Trace[i].x.elements[2] = Symbol("u")
          /\ Len(Children(i)) = 1
          /\ FramesAfter(i) = FramesAt(i)

\* the evaluations of a (let (..) body), and the names its binding list gives
AnyLetEvals ==
    {i \in DOMAIN Trace :
        /\ IsEval(i) /\ Trace[i].x.t = "List" /\ Len(Trace[i].x.elements) = 3
        /\ is_symbol(Trace[i].x.elements[1], "let")
        /\ Trace[i].x.elements[2].t = "List"}

LetNames(i) ==
    {b.elements[1].name : b \in {c \in {Trace[i].x.elements[2].elements[k] :
                                          k \in DOMAIN Trace[i].x.elements[2].elements} :
                                    c.t = "List" /\ Len(c.elements) = 2
                                    /\ c.elements[1].t = "Symbol"}}

\* C28: when a let returns, with a value or with an error, every frame of the chain
\* of the frame it was evaluated in has the bindings it had when the let began, so
\* each name of the let resolves there as it did before: to the ancestor's value if
\* the let shadowed one, and to nothing if only the let introduced it.  Inside the
\* let the names resolve to the values the let bound.
C28_LetConfined ==
    \A i \in AnyLetEvals :
        /\ \A g \in Chain(FramesAt(i), Trace[i].env) :
              FramesAfter(i)[g].vars = FramesAt(i)[g].vars
        /\ \A n \in LetNames(i) :
              get(FramesAfter(i), Trace[i].env, n) = get(FramesAt(i), Trace[i].env, n)
        /\ i \in LetEvals /\ Len(Children(i)) = Len(Trace[i].x.elements[2].elements) + 1 =>
              LET body == Children(i)[Len(Children(i))]
              IN  \A n \in LetNames(i) :
                      /\ n \in DOMAIN Trace[body].vars
                      /\ get(FramesAt(body), Trace[body].env, n) = Trace[body].vars[n]

\* in one run with a bound to 5 in the root frame: a let bound a to 1 and b to 2,
\* and after it a was 5 and b undefined; a let whose second binding failed left its
\* first name c undefined; the define in the inner let bound nothing in the root
C28_Witness ==
    /\ last.op = "eval_exprs" /\ last.msg = "Undefined symbol: b"
    /\ \E i \in AnyLetEvals :
          /\ Trace[i].env = 1
          /\ LetNames(i) = {"a", "b"}
          /\ Trace[Children(i)[3]].vars = [n \in {"a", "b"} |-> IF n = "a" THEN Integer(1) ELSE Integer(2)]
          /\ Trace[ExitOf(i)].k = "ok"
          /\ get(FramesAfter(i), 1, "a") = Integer(5)
          /\ get(FramesAfter(i), 1, "b") = NotFound
          /\ get(FramesAfter(i), 1, "y") = NotFound
    /\ \E i \in AnyLetEvals :
          /\ LetNames(i) = {"c", "d"}
          /\ Trace[ExitOf(i)].k = "err"
          /\ get(FramesAfter(i), 1, "c") = NotFound

\* the body evaluations of the closure applications that reached their body
Bodies == {i \in DOMAIN Trace : IsEval(i) /\ i > 1 /\ Trace[i - 1].ev = "call"}

\* C29: a closure application makes a frame that did not exist before and that no
\* other application of the run uses.  From the evaluation of the head to the entry
\* of the body, each frame that existed before the application changes only while
\* an argument is evaluated: binding the parameters writes neither the captured
\* frame nor the caller's.  And while the body of an application runs, the body of
\* an application nested in it, of the same closure or another, leaves the frame of
\* the outer application as it found it: when the inner call returns the outer
\* parameters have the values they were bound to.
C29_FreshFrames ==
    /\ \A i \in Applications :
          LET a == Trace[i]
              before == Trace[i - 1].frames
              made == CallsOf(i)
          IN  /\ a.newenv \notin DOMAIN before
              /\ \A j \in Applications : j # i => Trace[j].newenv # a.newenv
              /\ \A k \in DOMAIN made : \A g \in DOMAIN before :
                    FramesAt(made[k])[g] =
                        IF k = 1 THEN before[g] ELSE FramesAfter(made[k - 1])[g]
    /\ \A b \in Bodies : \A c \in Bodies :
          (b < c /\ c < ExitOf(b)) =>
              FramesAfter(c)[Trace[b].env] = FramesAt(c)[Trace[b].env]

\* k called itself: the inner body ran with n bound to 0 in its own frame while the
\* outer frame bound n to 1, before and after the inner call, and the root frame
\* bound n to 7 throughout; the outer call returned (0 1)
C29_Witness ==
    \E b \in Bodies : \E c \in Bodies :
        /\ b < c /\ c < ExitOf(b)
        /\ Trace[b].x = Trace[c].x
        /\ Trace[b].env # Trace[c].env
        /\ Trace[c].vars = [n \in {"n"} |-> Integer(0)]
        /\ FramesAt(c)[Trace[b].env].vars = [n \in {"n"} |-> Integer(1)]
        /\ FramesAfter(c)[Trace[b].env].vars = [n \in {"n"} |-> Integer(1)]
        /\ get(FramesAfter(b), 1, "n") = Integer(7)
        /\ Trace[ExitOf(b)].v = List(<<Integer(0), Integer(1)>>)

\* the evaluations of a list headed by define that did not return Ok
FailedDefines ==
    {i \in DOMAIN Trace :
        /\ IsEval(i) /\ Trace[i].x.t = "List" /\ Trace[i].x.elements # <<>>
        /\ is_symbol(Trace[i].x.elements[1], "define")
        /\ Trace[ExitOf(i)].k # "ok"}

\* what frame e itself binds the name to
Binding(fs, e, name) == IF name \in DOMAIN fs[e].vars THEN fs[e].vars[name] ELSE NotFound

====
